---- MODULE Spec2Model ----
(***************************************************************************)
(* Model of the UBF typed buffer wrapper (endurox-sys/src/ubf.rs), the     *)
(* struct mapping (endurox-derive, endurox-sys/src/ubf_struct.rs) and the  *)
(* JSON marshal/unmarshal codec of serdzz/endurox-rust.                    *)
(*                                                                         *)
(* Values are byte sequences: a Rust String is the sequence of its UTF-8   *)
(* bytes, an i64 and an f64 are the 8 bytes of their little-endian         *)
(* representation (two's complement / IEEE-754 bits).  The wrapper hands   *)
(* raw pointers to the Enduro/X C library; the library calls are modelled  *)
(* by the operators Binit, Badd, Bchg, CBget, Bpres, Bdel, Bused, Bunused, *)
(* Bsizeof and tpalloc declared in endurox-sys/src/ffi.rs.                 *)
(***************************************************************************)
EXTENDS Integers, Sequences, FiniteSets, TLC

VARIABLES buf, pre, last, val

vars == <<buf, pre, last, val>>

\* what last records of a call: the operation, its inputs, whether it
\* succeeded and what it returned
Call(op, id, occ, arg, ok, out) ==
  [op |-> op, id |-> id, occ |-> occ, arg |-> arg, ok |-> ok, out |-> out]

(***************************************************************************)
(* Bounds of the model.                                                    *)
(***************************************************************************)
\* largest number of field occurrences a modelled buffer is filled with
MaxEntries == 3

(***************************************************************************)
(* Byte sequences.                                                         *)
(***************************************************************************)
Range(s) == {s[i] : i \in 1..Len(s)}

Rep(b, n) == [i \in 1..n |-> b]

\* 8 little-endian bytes of a small non-negative integer (value as c_long)
I64(n) == [i \in 1..8 |-> IF i <= 4 THEN (n \div (256 ^ (i - 1))) % 256 ELSE 0]

\* the bytes of -1 as i64
I64MinusOne == Rep(255, 8)

\* IEEE-754 little-endian bytes of the f64 values 999.99 and 250.75
F64_999_99 == <<82, 184, 30, 133, 235, 63, 143, 64>>

F64_250_75 == <<0, 0, 0, 0, 0, 88, 111, 64>>

(***************************************************************************)
(* Field identifiers: the type tag sits above the low 25 bits.             *)
(***************************************************************************)
BFLD_LONG == 1

BFLD_DOUBLE == 4

BFLD_STRING == 5

EFFECTIVE_BITS == 25

MkFldId(type, number) == type * (2 ^ EFFECTIVE_BITS) + number

FldType(id) == id \div (2 ^ EFFECTIVE_BITS)

T_NAME_FLD == 167773162

T_STATUS_FLD == MkFldId(BFLD_STRING, 1004)

T_ID_FLD == MkFldId(BFLD_LONG, 1012)

T_PRICE_FLD == MkFldId(BFLD_DOUBLE, 1021)

T_FLAG_FLD == MkFldId(BFLD_LONG, 1013)

(***************************************************************************)
(* Layout of the C library's buffer (libubf/libatmi, linked by build.rs).  *)
(* The properties checked below do not depend on the particular numbers.   *)
(***************************************************************************)
\* smallest length Binit accepts: the size of the buffer header
UBF_HDR_SIZE == 48

\* smallest UBF allocation tpalloc hands out
UBF_DEFAULT_SIZE == 1024

\* bytes of a c_long / f64 value
LONG_SIZE == 8

\* encoded size of one entry: identifier, padding, value (strings with NUL)
FldSize(id, v) ==
  IF FldType(id) = BFLD_STRING THEN ((4 + Len(v) + 1 + 3) \div 4) * 4
  ELSE 2 * LONG_SIZE

DefaultVal(id) == IF FldType(id) = BFLD_STRING THEN <<>> ELSE Rep(0, LONG_SIZE)

(***************************************************************************)
(* The buffer: what the raw pointer of UbfBuffer points to (allocation     *)
(* size, header fields buf_len and bytes_used, the entries in storage      *)
(* order).  The wrapper's own size field is written by new, from_bytes and *)
(* from_raw and read by no method, so it is left out.  ovf records that a  *)
(* write went past the allocation.                                         *)
(***************************************************************************)
NoBuf ==
  [st |-> "none", alloc |-> 0, buf_len |-> 0, bytes_used |-> 0,
   flds |-> <<>>, origin |-> "none", ovf |-> FALSE]

\* tpalloc("UBF", NULL, size): the bytes allocated, or 0 for the NULL the
\* library returns when it has no memory (ptr_null)
tpalloc(size, ptr_null) ==
  IF ptr_null THEN 0
  ELSE IF size > UBF_DEFAULT_SIZE THEN size ELSE UBF_DEFAULT_SIZE

\* Binit(p_ub, len): 0 and an empty buffer of capacity len, or -1
Binit(b, len) ==
  IF len < UBF_HDR_SIZE THEN [rc |-> -1, b |-> b]
  ELSE [rc |-> 0,
        b |-> [b EXCEPT !.buf_len = len, !.bytes_used = UBF_HDR_SIZE, !.flds = <<>>]]

Bused(b) == b.bytes_used

Bunused(b) == b.buf_len - b.bytes_used

Bsizeof(b) == b.buf_len

\* number of occurrences of id
Boccur(b, id) == Len(SelectSeq(b.flds, LAMBDA e : e.id = id))

\* index in storage order of occurrence 0 of id (entries are kept sorted by identifier)
FirstPos(b, id) == 1 + Len(SelectSeq(b.flds, LAMBDA e : e.id < id))

InsertAt(s, pos, e) == SubSeq(s, 1, pos - 1) \o <<e>> \o SubSeq(s, pos, Len(s))

\* a variant of RemoveAt that removes the first entry whatever the position
RemoveAt_First(s, pos) == Tail(s)

RemoveAt(s, pos) == SubSeq(s, 1, pos - 1) \o SubSeq(s, pos + 1, Len(s))

\* the C string at a pointer: the bytes before the first NUL
CStrAt(bytes) ==
  LET nul == CHOOSE i \in 1..Len(bytes) : bytes[i] = 0 /\ \A j \in 1..(i - 1) : bytes[j] # 0
  IN SubSeq(bytes, 1, nul - 1)

\* what the library reads at a value pointer for a field of id's type; ptr are
\* the bytes of the object pointed to, mem the bytes that follow it in memory
ReadValue(id, ptr, mem) ==
  IF FldType(id) = BFLD_STRING THEN CStrAt(ptr \o mem)
  ELSE SubSeq(ptr \o mem, 1, LONG_SIZE)

Bpres(b, id, occ) == IF occ >= 0 /\ occ < Boccur(b, id) THEN 1 ELSE 0

WriteFlds(b, flds, used) ==
  [b EXCEPT !.flds = flds, !.bytes_used = used, !.ovf = @ \/ used > b.alloc]

\* Badd(p_ub, bfldid, buf, 0): append an occurrence after the last one of bfldid
Badd(b, id, ptr, mem) ==
  LET v == ReadValue(id, ptr, mem)
      used == b.bytes_used + FldSize(id, v)
      pos == FirstPos(b, id) + Boccur(b, id)
  IN IF used > b.buf_len THEN [rc |-> -1, b |-> b]
     ELSE [rc |-> 0, b |-> WriteFlds(b, InsertAt(b.flds, pos, [id |-> id, val |-> v]), used)]

\* Bchg(p_ub, bfldid, occ, buf, 0): overwrite occurrence occ, or add it after
\* filling the missing lower occurrences with empty values
Bchg(b, id, occ, ptr, mem) ==
  LET v == ReadValue(id, ptr, mem)
      n == Boccur(b, id)
      first == FirstPos(b, id)
  IN IF occ < 0 THEN [rc |-> -1, b |-> b]
     ELSE IF occ < n
       THEN LET used == b.bytes_used - FldSize(id, b.flds[first + occ].val) + FldSize(id, v)
            IN IF used > b.buf_len THEN [rc |-> -1, b |-> b]
               ELSE [rc |-> 0,
                     b |-> WriteFlds(b, [b.flds EXCEPT ![first + occ].val = v], used)]
       ELSE LET fill == [i \in 1..(occ - n) |-> [id |-> id, val |-> DefaultVal(id)]]
                used == b.bytes_used + (occ - n) * FldSize(id, DefaultVal(id)) + FldSize(id, v)
                flds == SubSeq(b.flds, 1, first + n - 1) \o fill \o <<[id |-> id, val |-> v]>>
                          \o SubSeq(b.flds, first + n, Len(b.flds))
            IN IF used > b.buf_len THEN [rc |-> -1, b |-> b]
               ELSE [rc |-> 0, b |-> WriteFlds(b, flds, used)]

\* Bdel that removes the last occurrence of the identifier instead of occ
Bdel_Last(b, id, occ) ==
  IF Bpres(b, id, occ) = 0 THEN [rc |-> -1, b |-> b]
  ELSE LET pos == FirstPos(b, id) + Boccur(b, id) - 1
       IN [rc |-> 0,
           b |-> [b EXCEPT !.flds = RemoveAt(b.flds, pos),
                           !.bytes_used = @ - FldSize(id, b.flds[pos].val)]]

\* Bdel(p_ub, bfldid, occ): remove one occurrence
Bdel(b, id, occ) ==
  IF Bpres(b, id, occ) = 0 THEN [rc |-> -1, b |-> b]
  ELSE LET pos == FirstPos(b, id) + occ
       IN [rc |-> 0,
           b |-> [b EXCEPT !.flds = RemoveAt(b.flds, pos),
                           !.bytes_used = @ - FldSize(id, b.flds[pos].val)]]

\* CBget(p_ub, bfldid, occ, buf, &len, usrtype) for usrtype equal to the
\* field's own type: copies the value out when the caller's buffer holds it
CBget(b, id, occ, len) ==
  IF Bpres(b, id, occ) = 0 THEN [rc |-> -1, out |-> <<>>]
  ELSE LET v == b.flds[FirstPos(b, id) + occ].val
           data == IF FldType(id) = BFLD_STRING THEN v \o <<0>> ELSE v
       IN IF len < Len(data) THEN [rc |-> -1, out |-> <<>>]
          ELSE [rc |-> 0, out |-> data]

(***************************************************************************)
(* UbfBuffer (endurox-sys/src/ubf.rs).  A Result is [ok, ...]; operations  *)
(* that take &mut self return the buffer they leave behind as b.           *)
(***************************************************************************)
\* CString::new: fails on an interior NUL byte, else appends the terminator
CStringNew(value) ==
  IF 0 \in Range(value) THEN [ok |-> FALSE, bytes |-> <<>>]
  ELSE [ok |-> TRUE, bytes |-> value \o <<0>>]

\* String::from_utf8_lossy on the bytes the model stores: ASCII is kept, a
\* byte that can start no UTF-8 sequence becomes U+FFFD
ToStringLossy(bytes) ==
  IF \A i \in 1..Len(bytes) : bytes[i] < 128 THEN bytes ELSE
  LET F[i \in 0..Len(bytes)] ==
        IF i = 0 THEN <<>>
        ELSE F[i - 1] \o (IF bytes[i] < 128 THEN <<bytes[i]>> ELSE <<239, 191, 189>>)
  IN F[Len(bytes)]

\* UbfBuffer::new(size)
new(size, ptr_null) ==
  LET alloc == tpalloc(size, ptr_null)
      ptr == [NoBuf EXCEPT !.st = "live", !.alloc = alloc, !.origin = "new"]
      result == Binit(ptr, size)
  IN IF alloc = 0
       THEN [ok |-> FALSE, b |-> NoBuf, err |-> "Failed to allocate UBF buffer"]
     ELSE IF result.rc = -1
       THEN [ok |-> FALSE, b |-> NoBuf, err |-> "Failed to initialize UBF buffer"]
     ELSE [ok |-> TRUE, b |-> result.b, err |-> "none"]

\* an Err(String) is kept as the format string and its arguments
add_string(b, field_id, value, mem) ==
  LET c_value == CStringNew(value)
  IN IF ~c_value.ok
       THEN [ok |-> FALSE, b |-> b,
             err |-> [fmt |-> "nul byte found in provided data at position: {}",
                      pos |-> (CHOOSE i \in 1..Len(value) :
                                 value[i] = 0 /\ \A j \in 1..(i - 1) : value[j] # 0) - 1]]
     ELSE LET result == Badd(b, field_id, c_value.bytes, mem)
          IN [ok |-> result.rc # -1, b |-> result.b,
              err |-> [fmt |-> "Failed to add string field {}", id |-> field_id]]

add_long(b, field_id, value, mem) ==
  LET result == Badd(b, field_id, value, mem)
  IN [ok |-> result.rc # -1, b |-> result.b,
      err |-> [fmt |-> "Failed to add long field {}", id |-> field_id]]

add_double(b, field_id, value, mem) ==
  LET result == Badd(b, field_id, value, mem)
  IN [ok |-> result.rc # -1, b |-> result.b,
      err |-> [fmt |-> "Failed to add double field {}", id |-> field_id]]

change_string(b, field_id, occ, value, mem) ==
  LET c_value == CStringNew(value)
  IN IF ~c_value.ok THEN [ok |-> FALSE, b |-> b]
     ELSE LET result == Bchg(b, field_id, occ, c_value.bytes, mem)
          IN [ok |-> result.rc # -1, b |-> result.b]

\* size of the read buffer get_string passes to CBget
GetStringBufLen == 1024

get_string(b, field_id, occ) ==
  LET result == CBget(b, field_id, occ, GetStringBufLen)
  IN IF result.rc = -1
       THEN [ok |-> FALSE, v |-> <<>>,
             err |-> [fmt |-> "Failed to get string field {} at occ {}",
                      id |-> field_id, occ |-> occ]]
     ELSE [ok |-> TRUE,
           v |-> ToStringLossy(CStrAt(result.out \o Rep(0, GetStringBufLen - Len(result.out))))]

\* a variant of get_long that does not look at what CBget returned
get_long_Unchecked(b, field_id, occ) ==
  LET result == CBget(b, field_id, occ, LONG_SIZE)
  IN [ok |-> TRUE, v |-> IF result.rc = -1 THEN Rep(0, LONG_SIZE) ELSE result.out]

get_long(b, field_id, occ) ==
  LET result == CBget(b, field_id, occ, LONG_SIZE)
  IN IF result.rc = -1
       THEN [ok |-> FALSE, v |-> <<>>,
             err |-> [fmt |-> "Failed to get long field {} at occ {}",
                      id |-> field_id, occ |-> occ]]
     ELSE [ok |-> TRUE, v |-> result.out]

get_double(b, field_id, occ) ==
  LET result == CBget(b, field_id, occ, LONG_SIZE)
  IN IF result.rc = -1
       THEN [ok |-> FALSE, v |-> <<>>,
             err |-> [fmt |-> "Failed to get double field {} at occ {}",
                      id |-> field_id, occ |-> occ]]
     ELSE [ok |-> TRUE, v |-> result.out]

is_present(b, field_id, occ) == Bpres(b, field_id, occ) = 1

delete(b, field_id, occ) ==
  LET result == Bdel(b, field_id, occ)
  IN [ok |-> result.rc # -1, b |-> result.b]

\* used, unused and size return the library's c_long `as usize`: the library
\* returns no negative value for a buffer the wrapper holds, and the cast
\* keeps a value that is not negative
used(b) == Bused(b)

unused(b) == Bunused(b)

\* a variant of size that reports the bytes tpalloc reserved
size_OfAllocation(b) == b.alloc

size(b) == Bsizeof(b)

\* the entries that lie entirely within the first n bytes after the header
TakeFlds(flds, n) ==
  LET End[i \in 0..Len(flds)] ==
        IF i = 0 THEN 0 ELSE End[i - 1] + FldSize(flds[i].id, flds[i].val)
      k == Cardinality({i \in 1..Len(flds) : End[i] <= n})
  IN SubSeq(flds, 1, k)

\* as_bytes: the first used() bytes at the pointer, i.e. the header with its
\* buf_len and bytes_used fields followed by the encoded entries
as_bytes(b) ==
  LET used_size == used(b)
  IN [len |-> used_size, buf_len |-> b.buf_len, bytes_used |-> b.bytes_used,
      flds |-> TakeFlds(b.flds, used_size - UBF_HDR_SIZE)]

\* from_bytes that keeps the header tpalloc wrote and copies the entries only
from_bytes_KeepHeader(data, ptr_null) ==
  IF tpalloc(data.len, ptr_null) = 0
    THEN [ok |-> FALSE, b |-> NoBuf, err |-> "Failed to allocate UBF buffer"]
  ELSE
  [ok |-> TRUE, err |-> "none",
   b |-> [st |-> "live", alloc |-> tpalloc(data.len, ptr_null),
          buf_len |-> tpalloc(data.len, ptr_null),
          bytes_used |-> data.bytes_used, flds |-> TakeFlds(data.flds, data.len - UBF_HDR_SIZE),
          origin |-> "from_bytes", ovf |-> FALSE]]

\* from_bytes: a new allocation of data.len() bytes with the data copied over
\* the header tpalloc wrote
from_bytes(data, ptr_null) ==
  IF tpalloc(data.len, ptr_null) = 0
    THEN [ok |-> FALSE, b |-> NoBuf, err |-> "Failed to allocate UBF buffer"]
  ELSE
  [ok |-> TRUE, err |-> "none",
   b |-> [st |-> "live", alloc |-> tpalloc(data.len, ptr_null), buf_len |-> data.buf_len,
          bytes_used |-> data.bytes_used, flds |-> TakeFlds(data.flds, data.len - UBF_HDR_SIZE),
          origin |-> "from_bytes", ovf |-> FALSE]]

(***************************************************************************)
(* Inputs of the model.                                                    *)
(***************************************************************************)
S_a == <<97>>

S_b == <<98>>

\* a string with an interior NUL byte
S_nul == <<97, 0, 98>>

\* the longest string that fits get_string's read buffer, and the next one
S_1023 == Rep(120, GetStringBufLen - 1)

S_1024 == Rep(120, GetStringBufLen)

Strings == {S_a, S_b, S_nul}

Longs == {I64(12345), I64MinusOne}

\* the identifiers the accessors are called with: a string, a long and a
\* double field of the generated field table
Ids == {T_NAME_FLD, T_ID_FLD, T_PRICE_FLD}

\* too small for the header, room for two numeric entries and a short string,
\* and the size the struct mapping allocates
NewSizes == {8, UBF_HDR_SIZE + 5 * LONG_SIZE, 2048}

Occs == 0..(MaxEntries - 1)

\* bytes found behind an object when the library reads past its end: what
\* the stack or the heap holds there, different from build to build and from
\* run to run.  Any bytes may follow, as many as a long has at least, with a
\* zero byte among them where a read of a C string ends
OverRead ==
  {m \in Seq(0..255) : Len(m) >= LONG_SIZE /\ \E i \in 1..Len(m) : m[i] = 0}

\* a call whose value holds every byte the library reads: nothing behind it is read
NoOverRead == {Rep(0, LONG_SIZE)}

None == [some |-> FALSE, v |-> <<>>]

Some(v) == [some |-> TRUE, v |-> v]

\* what the caller holds besides the buffer: the mapping the derive macro
\* generated (fields), the default literal it was declared with (lit), and
\* the native value last converted into a buffer (s); and, where ownership
\* is followed, the blocks tpalloc handed out with the number of tpfree
\* calls each received (heap), the pointer in the wrapper (ptr) and the raw
\* pointer into_raw returned (raw), 0 for none; and a UbfIterator (iter): its
\* fields current_field_id and current_occ, the position the library keeps
\* for Bnext (state), the buffer it was made of and the pairs it yielded; and
\* whether the caller is in a transaction (in_txn, what tpgetlev reports)
NoVal ==
  [derived |-> FALSE, fields |-> <<>>, lit |-> None, has_s |-> FALSE, s |-> <<>>,
   heap |-> <<>>, ptr |-> 0, raw |-> 0, tp |-> 0, in_txn |-> FALSE, in_f |-> FALSE,
   iter |-> [st |-> "none", current_field_id |-> 0, current_occ |-> 0,
             state |-> [pos |-> 0, cur_occ |-> 0, size |-> 0], of |-> NoBuf,
             yielded |-> <<>>, buffer_ptr |-> 0]]

Live == buf.st = "live"

(***************************************************************************)
(* Actions: one per method of UbfBuffer.                                   *)
(***************************************************************************)
Init ==
  /\ buf = NoBuf
  /\ pre = NoBuf
  /\ last = Call("init", 0, 0, <<>>, TRUE, <<>>)
  /\ val = NoVal

New(n, ptr_null) ==
  /\ buf.st = "none"
  /\ LET r == new(n, ptr_null)
     IN /\ buf' = r.b
        /\ last' = Call("new", 0, 0, n, r.ok, r.err)
  /\ pre' = buf
  /\ UNCHANGED val

AddString(id, v, mem) ==
  /\ mem \in OverRead
  /\ Live /\ Len(buf.flds) < MaxEntries
  /\ LET r == add_string(buf, id, v, mem)
     IN /\ buf' = r.b
        /\ last' = Call("add_string", id, Boccur(buf, id), v, r.ok, <<>>)
  /\ pre' = buf
  /\ UNCHANGED val

AddLong(id, v, mem) ==
  /\ mem \in OverRead
  /\ Live /\ Len(buf.flds) < MaxEntries
  /\ LET r == add_long(buf, id, v, mem)
     IN /\ buf' = r.b
        /\ last' = Call("add_long", id, Boccur(buf, id), v, r.ok, <<>>)
  /\ pre' = buf
  /\ UNCHANGED val

AddDouble(id, v, mem) ==
  /\ mem \in OverRead
  /\ Live /\ Len(buf.flds) < MaxEntries
  /\ LET r == add_double(buf, id, v, mem)
     IN /\ buf' = r.b
        /\ last' = Call("add_double", id, Boccur(buf, id), v, r.ok, <<>>)
  /\ pre' = buf
  /\ UNCHANGED val

ChangeString(id, occ, v, mem) ==
  /\ mem \in OverRead
  /\ Live /\ occ <= Boccur(buf, id)
  /\ Len(buf.flds) + (IF occ = Boccur(buf, id) THEN 1 ELSE 0) <= MaxEntries
  /\ LET r == change_string(buf, id, occ, v, mem)
     IN /\ buf' = r.b
        /\ last' = Call("change_string", id, occ, v, r.ok, <<>>)
  /\ pre' = buf
  /\ UNCHANGED val

Delete(id, occ) ==
  /\ Live
  /\ LET r == delete(buf, id, occ)
     IN /\ buf' = r.b
        /\ last' = Call("delete", id, occ, <<>>, r.ok, <<>>)
  /\ pre' = buf
  /\ UNCHANGED val

GetString(id, occ) ==
  /\ Live
  /\ LET r == get_string(buf, id, occ)
     IN last' = Call("get_string", id, occ, <<>>, r.ok, r.v)
  /\ pre' = buf
  /\ UNCHANGED <<buf, val>>

GetLong(id, occ) ==
  /\ Live
  /\ LET r == get_long(buf, id, occ)
     IN last' = Call("get_long", id, occ, <<>>, r.ok, r.v)
  /\ pre' = buf
  /\ UNCHANGED <<buf, val>>

GetDouble(id, occ) ==
  /\ Live
  /\ LET r == get_double(buf, id, occ)
     IN last' = Call("get_double", id, occ, <<>>, r.ok, r.v)
  /\ pre' = buf
  /\ UNCHANGED <<buf, val>>

IsPresent(id, occ) ==
  /\ Live
  /\ last' = Call("is_present", id, occ, <<>>, TRUE, is_present(buf, id, occ))
  /\ pre' = buf
  /\ UNCHANGED <<buf, val>>

\* used(), unused() and size() read together
Sizes ==
  /\ Live
  /\ last' = Call("sizes", 0, 0, <<>>, TRUE, <<used(buf), unused(buf), size(buf)>>)
  /\ pre' = buf
  /\ UNCHANGED <<buf, val>>

\* the buffer is sent as bytes and rebuilt: from_bytes(b.as_bytes()); the
\* buffer the bytes were taken of goes out of scope
Rebuild(ptr_null) ==
  /\ Live
  /\ LET r == from_bytes(as_bytes(buf), ptr_null)
     IN /\ buf' = r.b
        /\ last' = Call("from_bytes", 0, 0, ptr_null, r.ok, r.err)
  /\ pre' = buf
  /\ UNCHANGED val

Next ==
  \/ \E n \in NewSizes, ptr_null \in BOOLEAN : New(n, ptr_null)
  \/ \E id \in {T_NAME_FLD}, v \in Strings, mem \in NoOverRead : AddString(id, v, mem)
  \/ \E id \in {T_ID_FLD}, v \in Longs, mem \in NoOverRead : AddLong(id, v, mem)
  \/ \E id \in {T_PRICE_FLD}, v \in {F64_999_99, F64_250_75}, mem \in NoOverRead : AddDouble(id, v, mem)
  \/ \E id \in {T_NAME_FLD}, occ \in Occs, v \in Strings, mem \in NoOverRead :
       ChangeString(id, occ, v, mem)
  \/ \E id \in Ids, occ \in Occs : Delete(id, occ)
  \/ \E id \in {T_NAME_FLD}, occ \in Occs : GetString(id, occ)
  \/ \E id \in {T_ID_FLD}, occ \in Occs : GetLong(id, occ)
  \/ \E id \in {T_PRICE_FLD}, occ \in Occs : GetDouble(id, occ)
  \/ \E id \in Ids, occ \in Occs : IsPresent(id, occ)
  \/ Sizes
  \/ \E ptr_null \in BOOLEAN : Rebuild(ptr_null)

Spec == Init /\ [][Next]_vars

(***************************************************************************)
(* Properties of the buffer operations.                                    *)
(***************************************************************************)
Adders == {"add_string", "add_long", "add_double"}

\* the stored value of an occurrence that is present
FldVal(b, id, occ) == b.flds[FirstPos(b, id) + occ].val

\* the entries of the identifiers other than id, in storage order
Others(b, id) == SelectSeq(b.flds, LAMBDA e : e.id # id)

\* C4: a successful delete(id, k) removes occurrence k of id only: the lower
\* occurrences keep their values, every higher occurrence moves down by one,
\* the former last occurrence is no longer present, and the entries of the
\* other identifiers are untouched.
C4_DeleteCompacts ==
  (last.op = "delete" /\ last.ok) =>
    LET id == last.id
        k == last.occ
        n == Boccur(pre, id)
    IN /\ Boccur(buf, id) = n - 1
       /\ \A j \in 0..(k - 1) : FldVal(buf, id, j) = FldVal(pre, id, j)
       /\ \A j \in k..(n - 2) : FldVal(buf, id, j) = FldVal(pre, id, j + 1)
       /\ ~is_present(buf, id, n - 1)
       /\ Others(buf, id) = Others(pre, id)

\* C4 witness: occurrence 1 of three distinct-ended occurrences was deleted
C4_Witness ==
  /\ last.op = "delete" /\ last.ok /\ last.occ = 1
  /\ Boccur(pre, last.id) = 3
  /\ FldVal(pre, last.id, 1) # FldVal(pre, last.id, 2)
  /\ Boccur(buf, last.id) = 2
  /\ FldVal(buf, last.id, 1) = FldVal(pre, last.id, 2)

\* C5 as stated: from_bytes(b.as_bytes()) succeeds and gives a buffer with
\* the same used(), the same size() and the same entries in the same storage
\* order.
C5_RoundTripSucceeds ==
  last.op = "from_bytes" =>
    /\ last.ok
    /\ used(buf) = used(pre)
    /\ size(buf) = size(pre)
    /\ buf.flds = pre.flds

\* C5, amended: from_bytes(b.as_bytes()) returns Err and no buffer exactly
\* when tpalloc gives no memory for the copy; otherwise it succeeds and gives
\* a buffer with the same used(), the same size() and the same entries in
\* the same storage order.
C5_BytesRoundTrip ==
  last.op = "from_bytes" =>
    /\ last.ok <=> ~last.arg
    /\ ~last.ok => buf.st = "none" /\ last.out = "Failed to allocate UBF buffer"
    /\ last.ok =>
         /\ used(buf) = used(pre)
         /\ size(buf) = size(pre)
         /\ buf.flds = pre.flds

\* C5 witness: a buffer built by adds and a change_string was rebuilt
C5_Witness ==
  /\ last.op = "from_bytes" /\ last.ok
  /\ Len(buf.flds) = MaxEntries
  /\ Boccur(buf, T_NAME_FLD) >= 1 /\ Boccur(buf, T_ID_FLD) >= 1
  /\ buf.flds = pre.flds

(***************************************************************************)
(* The string accessors on strings around the size of get_string's read    *)
(* buffer.                                                                 *)
(***************************************************************************)
NextLen ==
  \/ \E ptr_null \in BOOLEAN : New(2048, ptr_null)
  \/ \E id \in {T_NAME_FLD}, v \in {S_a, S_1023, S_1024}, mem \in NoOverRead : AddString(id, v, mem)
  \/ \E id \in {T_NAME_FLD}, occ \in Occs : GetString(id, occ)
  \/ \E id \in {T_NAME_FLD}, occ \in Occs : IsPresent(id, occ)
  \/ Sizes
  \/ \E ptr_null \in BOOLEAN : Rebuild(ptr_null)
  \/ \E id \in {T_NAME_FLD}, occ \in Occs, v \in {S_a, S_1024}, mem \in NoOverRead :
       ChangeString(id, occ, v, mem)

SpecLen == Init /\ [][NextLen]_vars

\* the getter that matches an add_* call
GetFor(op, b, id, occ) ==
  CASE op = "add_string" -> get_string(b, id, occ)
    [] op = "add_long" -> get_long(b, id, occ)
    [] op = "add_double" -> get_double(b, id, occ)

\* C2: right after add_string(id, v) succeeded on a buffer that held no
\* occurrence of id, is_present(id, 0) is true and get_string(id, 0) returns
\* exactly v, whatever the length of v.
C2_AddThenGet ==
  (last.op = "add_string" /\ last.ok /\ Boccur(pre, last.id) = 0) =>
    /\ is_present(buf, last.id, 0)
    /\ get_string(buf, last.id, 0) = [ok |-> TRUE, v |-> last.arg]

\* C3: a successful add_* of value v on an identifier that held k occurrences
\* makes v readable with the matching get_* at occurrence k, and the reads of
\* the occurrences below k give what they gave before.
C3_AddKeepsOrder ==
  (last.op \in Adders /\ last.ok) =>
    LET id == last.id
        k == Boccur(pre, id)
    IN /\ GetFor(last.op, buf, id, k) = [ok |-> TRUE, v |-> last.arg]
       /\ \A j \in 0..(k - 1) : GetFor(last.op, buf, id, j) = GetFor(last.op, pre, id, j)

(***************************************************************************)
(* The add_* methods on identifiers of every type.  Badd takes the type    *)
(* from the identifier and reads the value pointer accordingly.  The       *)
(* values are those whose bytes hold all that Badd reads: a long or a      *)
(* double with a zero byte for a string identifier, a string of seven      *)
(* bytes (eight with its terminator) for a long identifier.  A value that  *)
(* ends before the read does makes Badd read the memory behind it          *)
(* (OverRead), which no two runs hold alike.                               *)
(***************************************************************************)
NextMix ==
  \/ \E ptr_null \in BOOLEAN : New(2048, ptr_null)
  \/ \E id \in {T_NAME_FLD, T_ID_FLD}, v \in {Rep(97, LONG_SIZE - 1), S_nul}, mem \in NoOverRead :
       AddString(id, v, mem)
  \/ \E id \in {T_NAME_FLD, T_ID_FLD}, mem \in NoOverRead : AddLong(id, I64(12345), mem)
  \/ \E mem \in NoOverRead : AddLong(T_ID_FLD, I64MinusOne, mem)
  \/ \E id \in {T_NAME_FLD, T_ID_FLD}, mem \in NoOverRead : AddDouble(id, F64_250_75, mem)
  \/ \E mem \in NoOverRead : AddDouble(T_ID_FLD, F64_999_99, mem)
  \/ \E id \in {T_NAME_FLD}, occ \in Occs : GetString(id, occ)
  \/ \E id \in {T_ID_FLD}, occ \in Occs : GetLong(id, occ)
  \/ Sizes

SpecMix == Init /\ [][NextMix]_vars

\* C10: an add_string, add_long or add_double on an identifier whose type tag
\* is not the type of the value fails and leaves the buffer as it was.
C10_TypeMismatchFails ==
  (/\ last.op \in Adders
   /\ FldType(last.id) # (CASE last.op = "add_string" -> BFLD_STRING
                            [] last.op = "add_long" -> BFLD_LONG
                            [] last.op = "add_double" -> BFLD_DOUBLE)) =>
    /\ ~last.ok
    /\ buf = pre

(***************************************************************************)
(* Struct mapping: the derive macro (endurox-derive/src/lib.rs).  Text is  *)
(* a sequence of bytes.                                                    *)
(***************************************************************************)
SetMin(S) == CHOOSE x \in S : \A y \in S : x <= y

SetMax(S) == CHOOSE x \in S : \A y \in S : x >= y

\* str::trim: white space (char::is_whitespace, on ASCII) is removed at both ends
Trim(s) ==
  LET keep == {i \in 1..Len(s) : s[i] \notin {9, 10, 11, 12, 13, 32}}
  IN IF keep = {} THEN <<>> ELSE SubSeq(s, SetMin(keep), SetMax(keep))

\* str::trim_matches(c): every leading and trailing c is removed
TrimMatches(s, c) ==
  LET keep == {i \in 1..Len(s) : s[i] # c}
  IN IF keep = {} THEN <<>> ELSE SubSeq(s, SetMin(keep), SetMax(keep))

\* str::starts_with
StartsWith(s, prefix) == Len(s) >= Len(prefix) /\ SubSeq(s, 1, Len(prefix)) = prefix

\* str::find(c): the byte offset of the first c, or -1 for None
Find(s, c) ==
  LET at == {i \in 1..Len(s) : s[i] = c}
  IN IF at = {} THEN -1 ELSE SetMin(at) - 1

\* str::split(c): the pieces between the occurrences of c
Split(s, c) ==
  LET at == {i \in 1..Len(s) : s[i] = c}
      n == Cardinality(at)
      Sep(k) == IF k = 0 THEN 0
                ELSE IF k = n + 1 THEN Len(s) + 1
                ELSE CHOOSE i \in at : Cardinality({j \in at : j < i}) = k - 1
  IN [k \in 1..(n + 1) |-> SubSeq(s, Sep(k - 1) + 1, Sep(k) - 1)]

COMMA == 44

EQUALS == 61

DQUOTE == 34

\* "field"
STR_field == <<102, 105, 101, 108, 100>>

\* "default"
STR_default == <<100, 101, 102, 97, 117, 108, 116>>

\* the generated field constants: the name an attribute uses and the value
UbfFields ==
  << [name |-> <<84, 95, 78, 65, 77, 69, 95, 70, 76, 68>>, id |-> T_NAME_FLD],
     [name |-> <<84, 95, 73, 68, 95, 70, 76, 68>>, id |-> T_ID_FLD],
     [name |-> <<84, 95, 80, 82, 73, 67, 69, 95, 70, 76, 68>>, id |-> T_PRICE_FLD],
     [name |-> <<84, 95, 83, 84, 65, 84, 85, 83, 95, 70, 76, 68>>, id |-> T_STATUS_FLD],
     [name |-> <<84, 95, 70, 76, 65, 71, 95, 70, 76, 68>>, id |-> T_FLAG_FLD] >>

\* the value of a string literal as the language reads it: the text between
\* the quotes with \" \\ \n \t unescaped
RECURSIVE Unescape(_)
Unescape(s) ==
  IF s = <<>> THEN <<>>
  ELSE IF s[1] = 92 /\ Len(s) >= 2
    THEN <<(CASE s[2] = 110 -> 10 [] s[2] = 116 -> 9 [] OTHER -> s[2])>>
           \o Unescape(SubSeq(s, 3, Len(s)))
    ELSE <<s[1]>> \o Unescape(Tail(s))

\* TokenStream::to_string of the attribute #[ubf(field = F, default = LIT)];
\* a literal is printed as it is written in the source
TokensToString(attr) ==
  STR_field \o <<32, EQUALS, 32>> \o attr.field
    \o (IF attr.default.some
          THEN <<COMMA, 32>> \o STR_default \o <<32, EQUALS, 32>> \o attr.default.v
          ELSE <<>>)

\* the loop over the parts of one attribute: a later part overwrites what an
\* earlier one set
ParseUbfAttr(tokens_str) ==
  LET split == Split(tokens_str, COMMA)
      parts == [i \in 1..Len(split) |-> Trim(split[i])]
      ValueStr(part) == Trim(SubSeq(part, Find(part, EQUALS) + 2, Len(part)))
      IsField(part) == StartsWith(part, STR_field)
      IsDefault(part) == ~IsField(part) /\ StartsWith(part, STR_default)
      fields == SelectSeq(parts, LAMBDA part : IsField(part) /\ Find(part, EQUALS) # -1)
      defaults == SelectSeq(parts, LAMBDA part : IsDefault(part) /\ Find(part, EQUALS) # -1)
  IN [field_expr |-> IF fields = <<>> THEN None ELSE Some(ValueStr(fields[Len(fields)])),
      default_value |->
        IF defaults = <<>> THEN None
        ELSE Some(TrimMatches(ValueStr(defaults[Len(defaults)]), DQUOTE))]

RECURSIVE derive_ubf_struct(_)

\* a variant of derive_ubf_struct that gives the fields of a nested structure
\* identifiers of their own
derive_ubf_struct_Scoped(input) ==
  [i \in 1..Len(input) |->
     LET parsed == ParseUbfAttr(TokensToString(input[i].attr))
     IN [field_name |-> input[i].ident, field_type |-> input[i].ty,
         field_id |-> IF parsed.field_expr.v = <<48>> THEN 0
                      ELSE UbfFields[CHOOSE k \in 1..Len(UbfFields) :
                                       UbfFields[k].name = parsed.field_expr.v].id,
         default_value |-> parsed.default_value,
         nested |-> IF input[i].ty \in {"String", "i64", "i32", "f64", "bool"} THEN <<>>
                    ELSE [k \in 1..Len(input[i].nested) |->
                            [derive_ubf_struct(input[i].nested)[k]
                               EXCEPT !.field_id = @ + 1]]]]

\* derive_ubf_struct: one mapped field per declared field; field = 0 is a
\* literal, any other expression names a generated constant; a field whose
\* type is another mapped structure carries that structure's expansion
derive_ubf_struct(input) ==
  [i \in 1..Len(input) |->
     LET parsed == ParseUbfAttr(TokensToString(input[i].attr))
     IN [field_name |-> input[i].ident, field_type |-> input[i].ty,
         field_id |-> IF parsed.field_expr.v = <<48>> THEN 0
                      ELSE UbfFields[CHOOSE k \in 1..Len(UbfFields) :
                                       UbfFields[k].name = parsed.field_expr.v].id,
         default_value |-> parsed.default_value,
         nested |-> IF input[i].ty \in {"String", "i64", "i32", "f64", "bool"} THEN <<>>
                    ELSE derive_ubf_struct(input[i].nested)]]

RECURSIVE from_ubf(_, _)
RECURSIVE update_ubf_from(_, _, _, _, _)

\* a variant of generate_field_getter that refuses a stored long outside the
\* range of an i32 field
generate_field_getter_CheckedNarrow(b, f) ==
  LET r == IF f.field_type = "String" THEN get_string(b, f.field_id, 0)
           ELSE IF f.field_type \in {"i64", "i32"} THEN get_long(b, f.field_id, 0)
           ELSE get_double(b, f.field_id, 0)
      Fits(v) == SubSeq(v, 5, 8) = Rep(IF v[4] >= 128 THEN 255 ELSE 0, 4)
      NotFound == [ok |-> FALSE, v |-> <<>>, err |-> "FieldNotFound",
                   msg |-> [fmt |-> "Field {} ({}): {}", name |-> f.field_name,
                            id |-> f.field_id,
                            e |-> IF r.ok THEN [fmt |-> "out of range"] ELSE r.err]]
  IN
  IF f.field_type = "String"
    THEN IF f.default_value.some
           THEN [ok |-> TRUE, v |-> IF r.ok THEN r.v ELSE f.default_value.v, err |-> "none"]
           ELSE IF r.ok THEN [ok |-> TRUE, v |-> r.v, err |-> "none"] ELSE NotFound
  ELSE IF f.field_type \in {"i64", "f64"}
    THEN IF r.ok THEN [ok |-> TRUE, v |-> r.v, err |-> "none"] ELSE NotFound
  ELSE IF f.field_type = "i32"
    THEN IF r.ok /\ Fits(r.v) THEN [ok |-> TRUE, v |-> SubSeq(r.v, 1, 4), err |-> "none"]
         ELSE NotFound
  ELSE IF f.field_type = "bool"
    THEN [ok |-> TRUE, v |-> is_present(b, f.field_id, 0), err |-> "none"]
  ELSE from_ubf(b, f.nested)

\* the statement generate_field_getter emits for one field, run on buffer b;
\* msg is the text of the UbfError: its format string and arguments.  `as
\* i32` keeps the four low bytes of the long; a field of another type reads
\* its structure from the same buffer
generate_field_getter(b, f) ==
  LET r == IF f.field_type = "String" THEN get_string(b, f.field_id, 0)
           ELSE IF f.field_type \in {"i64", "i32"} THEN get_long(b, f.field_id, 0)
           ELSE get_double(b, f.field_id, 0)
      NotFound == [ok |-> FALSE, v |-> <<>>, err |-> "FieldNotFound",
                   msg |-> [fmt |-> "Field {} ({}): {}", name |-> f.field_name,
                            id |-> f.field_id, e |-> r.err]]
  IN
  IF f.field_type = "String"
    THEN IF f.default_value.some
           THEN [ok |-> TRUE, v |-> IF r.ok THEN r.v ELSE f.default_value.v, err |-> "none"]
           ELSE IF r.ok THEN [ok |-> TRUE, v |-> r.v, err |-> "none"] ELSE NotFound
  ELSE IF f.field_type \in {"i64", "f64"}
    THEN IF r.ok THEN [ok |-> TRUE, v |-> r.v, err |-> "none"] ELSE NotFound
  ELSE IF f.field_type = "i32"
    THEN IF r.ok THEN [ok |-> TRUE, v |-> SubSeq(r.v, 1, 4), err |-> "none"] ELSE NotFound
  ELSE IF f.field_type = "bool"
    THEN [ok |-> TRUE, v |-> is_present(b, f.field_id, 0), err |-> "none"]
  ELSE from_ubf(b, f.nested)

\* a variant of generate_field_setter that writes a boolean whatever it is
generate_field_setter_BoolAsValue(b, f, value, mem) ==
  LET r == IF f.field_type = "String" THEN add_string(b, f.field_id, value, mem)
           ELSE IF f.field_type = "i64" THEN add_long(b, f.field_id, value, mem)
           ELSE IF f.field_type = "f64" THEN add_double(b, f.field_id, value, mem)
           ELSE add_long(b, f.field_id, I64(IF value THEN 1 ELSE 0), mem)
  IN IF r.ok THEN [ok |-> TRUE, b |-> r.b, err |-> "none"]
     ELSE [ok |-> FALSE, b |-> r.b, err |-> "TypeError",
           msg |-> [fmt |-> "Field {}: {}", name |-> f.field_name, e |-> r.err]]

\* the statement generate_field_setter emits for one field, run on buffer b;
\* `as i64` extends an i32 with its sign; a field of another type writes its
\* structure into the same buffer
generate_field_setter(b, f, value, mem) ==
  LET r == IF f.field_type = "String" THEN add_string(b, f.field_id, value, mem)
           ELSE IF f.field_type = "i64" THEN add_long(b, f.field_id, value, mem)
           ELSE IF f.field_type = "i32"
             THEN add_long(b, f.field_id,
                           value \o Rep(IF value[4] >= 128 THEN 255 ELSE 0, 4), mem)
           ELSE IF f.field_type = "f64" THEN add_double(b, f.field_id, value, mem)
           ELSE add_long(b, f.field_id, I64(1), mem)
  IN IF f.field_type \notin {"String", "i64", "i32", "f64", "bool"}
       THEN update_ubf_from(b, f.nested, value, 1, mem)
     ELSE IF f.field_type = "bool" /\ ~value
       THEN [ok |-> TRUE, b |-> b, err |-> "none"]
     ELSE IF r.ok THEN [ok |-> TRUE, b |-> r.b, err |-> "none"]
     ELSE [ok |-> FALSE, b |-> r.b, err |-> "TypeError",
           msg |-> [fmt |-> "Field {}: {}", name |-> f.field_name, e |-> r.err]]

\* generated from_ubf: the getters in declaration order, the first error returned
from_ubf(b, fields) ==
  LET got == [i \in 1..Len(fields) |-> generate_field_getter(b, fields[i])]
      bad == {i \in 1..Len(fields) : ~got[i].ok}
      names == {fields[i].field_name : i \in 1..Len(fields)}
      At(n) == CHOOSE i \in 1..Len(fields) : fields[i].field_name = n
  IN IF bad # {}
       THEN [ok |-> FALSE, v |-> <<>>, err |-> got[SetMin(bad)].err,
             field |-> IF fields[SetMin(bad)].nested = <<>>
                         THEN fields[SetMin(bad)].field_name ELSE got[SetMin(bad)].field,
             msg |-> got[SetMin(bad)].msg]
       ELSE [ok |-> TRUE, v |-> [n \in names |-> got[At(n)].v], err |-> "none", field |-> ""]

\* generated update_ubf: the setters in declaration order from field i on,
\* stopping at the first error
update_ubf_from(b, fields, s, i, mem) ==
  IF i > Len(fields) THEN [ok |-> TRUE, b |-> b, err |-> "none"]
  ELSE LET r == generate_field_setter(b, fields[i], s[fields[i].field_name], mem)
       IN IF ~r.ok THEN r ELSE update_ubf_from(r.b, fields, s, i + 1, mem)

update_ubf(b, fields, s, mem) == update_ubf_from(b, fields, s, 1, mem)

\* size of the buffer the generated to_ubf allocates
ToUbfSize == 2048

\* generated to_ubf: a new buffer filled by update_ubf, dropped on error
to_ubf(fields, s, mem, ptr_null) ==
  LET a == new(ToUbfSize, ptr_null)
  IN IF ~a.ok
       THEN [ok |-> FALSE, b |-> NoBuf, err |-> "AllocationError",
             msg |-> [fmt |-> a.err]]
     ELSE LET r == update_ubf(a.b, fields, s, mem)
          IN IF r.ok THEN r ELSE [r EXCEPT !.b = NoBuf]

(***************************************************************************)
(* The Transaction structure of the examples, declared with a default      *)
(* literal for status.                                                     *)
(***************************************************************************)
Transaction(lit) ==
  << [ident |-> "name", ty |-> "String", attr |-> [field |-> UbfFields[1].name, default |-> None]],
     [ident |-> "id", ty |-> "i64", attr |-> [field |-> UbfFields[2].name, default |-> None]],
     [ident |-> "amount", ty |-> "f64", attr |-> [field |-> UbfFields[3].name, default |-> None]],
     [ident |-> "status", ty |-> "String",
      attr |-> [field |-> UbfFields[4].name, default |-> Some(lit)]] >>

\* values of the structure
Transactions ==
  [name : {S_a, S_nul, S_1024}, id : {I64(12345)}, amount : {F64_999_99},
   status : {S_b, S_1023, S_1024}]

\* the structure of the examples with a boolean field
UserAccount ==
  << [ident |-> "username", ty |-> "String", attr |-> [field |-> UbfFields[1].name, default |-> None]],
     [ident |-> "user_id", ty |-> "i64", attr |-> [field |-> UbfFields[2].name, default |-> None]],
     [ident |-> "balance", ty |-> "f64", attr |-> [field |-> UbfFields[3].name, default |-> None]],
     [ident |-> "active", ty |-> "bool", attr |-> [field |-> UbfFields[5].name, default |-> None]] >>

UserAccounts ==
  [username : {S_a, S_1024}, user_id : {I64(12345)}, balance : {F64_999_99},
   active : BOOLEAN]

\* the macro expands the declaration input before anything runs; lit is the
\* default literal the declaration was written with, if any
Derive(input, lit) ==
  /\ ~val.derived /\ buf.st = "none" /\ last.op = "init"
  /\ val' = [val EXCEPT !.derived = TRUE, !.fields = derive_ubf_struct(input),
                        !.lit = lit]
  /\ last' = Call("derive", 0, 0, lit, TRUE, <<>>)
  /\ pre' = buf
  /\ UNCHANGED buf

ToUbf(s, mem, ptr_null) ==
  /\ val.derived /\ buf.st = "none"
  /\ DOMAIN s = {val.fields[i].field_name : i \in 1..Len(val.fields)}
  /\ \E r \in {to_ubf(val.fields, s, mem, ptr_null)} :
       /\ buf' = r.b
       /\ last' = Call("to_ubf", 0, 0, s, r.ok, [r EXCEPT !.b = <<>>])
       \* s is kept with the buffer made of it; a to_ubf that fails returns
       \* no buffer
       /\ val' = [val EXCEPT !.has_s = r.ok, !.s = IF r.ok THEN s ELSE NoVal.s]
  /\ pre' = buf

UpdateUbf(s, mem) ==
  /\ val.derived /\ Live /\ Len(buf.flds) < MaxEntries
  /\ DOMAIN s = {val.fields[i].field_name : i \in 1..Len(val.fields)}
  /\ \E r \in {update_ubf(buf, val.fields, s, mem)} :
       /\ buf' = r.b
       /\ last' = Call("update_ubf", 0, 0, s, r.ok, [r EXCEPT !.b = <<>>])
  /\ val' = [val EXCEPT !.has_s = TRUE, !.s = s]
  /\ pre' = buf

FromUbf ==
  /\ val.derived /\ Live
  /\ \E r \in {from_ubf(buf, val.fields)} :
       last' = Call("from_ubf", 0, 0, <<>>, r.ok, r)
  /\ pre' = buf
  /\ UNCHANGED <<buf, val>>

NextMap ==
  \/ \E lit \in
       { <<34, 112, 101, 110, 100, 105, 110, 103, 34>>,
         <<34, 97, 44, 98, 34>>,
         <<34, 97, 92, 34, 98, 34>>,
         <<34, 34>> } :
       Derive(Transaction(lit), Some(lit))
  \/ \E s \in Transactions, mem \in NoOverRead, ptr_null \in BOOLEAN :
       ToUbf(s, mem, ptr_null)
  \/ \E s \in Transactions, mem \in NoOverRead : UpdateUbf(s, mem)
  \/ FromUbf
  \/ \E ptr_null \in BOOLEAN : New(2048, ptr_null)
  \/ \E id \in {T_NAME_FLD, T_STATUS_FLD}, mem \in NoOverRead : AddString(id, S_a, mem)
  \/ \E mem \in NoOverRead : AddString(T_NAME_FLD, S_1024, mem)
  \/ \E mem \in NoOverRead : AddLong(T_ID_FLD, I64MinusOne, mem)
  \/ \E mem \in NoOverRead : AddDouble(T_PRICE_FLD, F64_250_75, mem)
  \/ Sizes

SpecMap == Init /\ [][NextMap]_vars

\* C6: for every value s of the mapped structure, to_ubf succeeds and from_ubf
\* of the buffer it returns succeeds with a structure equal to s.
C6_MappingRoundTrip ==
  (last.op = "to_ubf") =>
    /\ last.ok
    /\ from_ubf(buf, val.fields).ok
    /\ from_ubf(buf, val.fields).v = val.s

\* C7: from_ubf on a buffer that holds name, id and amount and no status
\* succeeds with status equal to the default literal the field was declared
\* with.
C7_DefaultApplied ==
  (/\ last.op = "from_ubf"
   /\ Boccur(buf, T_STATUS_FLD) = 0
   /\ \A id \in {T_NAME_FLD, T_ID_FLD, T_PRICE_FLD} : Boccur(buf, id) > 0) =>
    /\ last.ok
    /\ last.out.v.status = Unescape(SubSeq(val.lit.v, 2, Len(val.lit.v) - 1))

(***************************************************************************)
(* marshal / unmarshal (endurox-sys/src/ubf_struct.rs) for RequestData,    *)
(* with serde_json's compact encoding and its decoder for that structure.  *)
(***************************************************************************)
\* the field marshal stores the encoded value in: a string field; its number
\* comes from the field table, which is not among the sources
T_DATA_FLD == MkFldId(BFLD_STRING, 1030)

\* 0.0 as an f64
F64_0 == Rep(0, LONG_SIZE)

\* a string as the encoder writes it: quoted, with " \ and the control
\* characters escaped
JsonString(str) ==
  LET HexDigit(d) == IF d < 10 THEN 48 + d ELSE 87 + d
      JsonEscapeByte(c) ==
        CASE c = 34 -> <<92, 34>>
          [] c = 92 -> <<92, 92>>
          [] c = 8 -> <<92, 98>>
          [] c = 9 -> <<92, 116>>
          [] c = 10 -> <<92, 110>>
          [] c = 12 -> <<92, 102>>
          [] c = 13 -> <<92, 114>>
          [] c < 32 /\ c \notin {8, 9, 10, 12, 13} ->
               <<92, 117, 48, 48, HexDigit(c \div 16), HexDigit(c % 16)>>
          [] OTHER -> <<c>>
      F[i \in 0..Len(str)] == IF i = 0 THEN <<>> ELSE F[i - 1] \o JsonEscapeByte(str[i])
  IN <<34>>
       \o (IF \A i \in 1..Len(str) : str[i] >= 32 /\ str[i] \notin {34, 92}
             THEN str ELSE F[Len(str)])
       \o <<34>>

RECURSIVE Digits(_)
Digits(n) == IF n < 10 THEN <<48 + n>> ELSE Digits(n \div 10) \o <<48 + (n % 10)>>

\* an i64 in decimal
Itoa(n) == IF n < 0 THEN <<45>> \o Digits(-n) ELSE Digits(n)

\* the shortest decimal text that reads back as the f64, for the values used
F64ToString(d) ==
  CASE d = F64_0 -> <<48, 46, 48>>
    [] d = F64_999_99 -> <<57, 57, 57, 46, 57, 57>>
    [] d = F64_250_75 -> <<50, 53, 48, 46, 55, 53>>

\* serde_json::to_string of a RequestData
to_string(value) ==
  <<123, 34, 111, 112, 101, 114, 97, 116, 105, 111, 110, 34, 58>> \o JsonString(value.operation)
    \o <<44, 34, 117, 115, 101, 114, 95, 105, 100, 34, 58>> \o Itoa(value.user_id)
    \o <<44, 34, 97, 109, 111, 117, 110, 116, 34, 58>> \o F64ToString(value.amount)
    \o <<44, 34, 109, 101, 116, 97, 100, 97, 116, 97, 34, 58>>
    \o (IF value.metadata.some THEN JsonString(value.metadata.v) ELSE <<110, 117, 108, 108>>)
    \o <<125>>

\* the first position from p on that holds no white space
SkipWs(t, p) ==
  LET ws == {9, 10, 13, 32}
  IN CHOOSE q \in p..(Len(t) + 1) :
       /\ q > Len(t) \/ t[q] \notin ws
       /\ \A j \in p..(q - 1) : t[j] \in ws

\* the byte an escape sequence starting at s[1] = backslash stands for
JsonUnescapeAt(s) ==
  CASE s[2] = 98 -> 8
    [] s[2] = 116 -> 9
    [] s[2] = 110 -> 10
    [] s[2] = 102 -> 12
    [] s[2] = 114 -> 13
    [] s[2] = 117 ->
         LET Hex(c) == IF c >= 97 THEN c - 87 ELSE IF c >= 65 THEN c - 55 ELSE c - 48
         IN Hex(s[5]) * 16 + Hex(s[6])
    [] OTHER -> s[2]

RECURSIVE JsonUnescape(_)
JsonUnescape(s) ==
  IF \A i \in 1..Len(s) : s[i] # 92 THEN s
  ELSE IF s[1] = 92
    THEN <<JsonUnescapeAt(s)>> \o JsonUnescape(SubSeq(s, IF s[2] = 117 THEN 7 ELSE 3, Len(s)))
    ELSE <<s[1]>> \o JsonUnescape(Tail(s))

JsonFail == [ok |-> FALSE, kind |-> "none", v |-> <<>>, p |-> 0]

\* a string whose opening quote is at p
ParseString(t, p) ==
  LET BsRun(j) == Cardinality({k \in 1..(j - p - 1) : \A m \in 1..k : t[j - m] = 92})
      IsClose(j) == t[j] = 34 /\ BsRun(j) % 2 = 0
  IN IF \A j \in (p + 1)..Len(t) : ~IsClose(j) THEN JsonFail
     ELSE LET q == CHOOSE j \in (p + 1)..Len(t) :
                     IsClose(j) /\ \A i \in (p + 1)..(j - 1) : ~IsClose(i)
          IN [ok |-> TRUE, kind |-> "string", v |-> JsonUnescape(SubSeq(t, p + 1, q - 1)),
              p |-> q + 1]

RECURSIVE Atoi(_)
Atoi(ds) == IF ds = <<>> THEN 0 ELSE Atoi(SubSeq(ds, 1, Len(ds) - 1)) * 10 + (ds[Len(ds)] - 48)

\* a number that starts at p: an integer, or digits with a fraction
ParseNumber(t, p) ==
  LET NumChars == {43, 45, 46, 69, 101} \cup 48..57
      end == CHOOSE q \in p..(Len(t) + 1) :
               /\ q > Len(t) \/ t[q] \notin NumChars
               /\ \A j \in p..(q - 1) : t[j] \in NumChars
      tok == SubSeq(t, p, end - 1)
      neg == tok[1] = 45
      body == IF neg THEN Tail(tok) ELSE tok
      dot == Find(body, 46)
      IsDigits(ds) == ds # <<>> /\ \A i \in 1..Len(ds) : ds[i] \in 48..57
      NoLeadingZero(ds) == Len(ds) = 1 \/ ds[1] # 48
  IN IF dot = -1
       THEN IF IsDigits(body) /\ NoLeadingZero(body)
              THEN [ok |-> TRUE, kind |-> "int", v |-> IF neg THEN -Atoi(body) ELSE Atoi(body),
                    p |-> end]
              ELSE JsonFail
       ELSE IF /\ IsDigits(SubSeq(body, 1, dot)) /\ NoLeadingZero(SubSeq(body, 1, dot))
               /\ IsDigits(SubSeq(body, dot + 2, Len(body)))
              THEN [ok |-> TRUE, kind |-> "float", v |-> tok, p |-> end]
              ELSE JsonFail

\* a value of one of the kinds RequestData's fields take
ParseValue(t, p) ==
  IF p > Len(t) THEN JsonFail
  ELSE IF t[p] = 34 THEN ParseString(t, p)
  ELSE IF t[p] = 110
    THEN IF SubSeq(t, p, p + 3) = <<110, 117, 108, 108>>
           THEN [ok |-> TRUE, kind |-> "null", v |-> <<>>, p |-> p + 4]
           ELSE JsonFail
  ELSE IF t[p] \in {45} \cup 48..57 THEN ParseNumber(t, p)
  ELSE JsonFail

\* the element of a one-element set; a value bound as the element of a set
\* is computed once
TheOne(S) == CHOOSE y \in S : TRUE

\* one member "key" : value whose key starts at p, and whether a comma follows
ParseMember(t, p) ==
  LET k == IF p > Len(t) \/ t[p] # 34 THEN JsonFail ELSE ParseString(t, p)
      colon == IF k.ok THEN SkipWs(t, k.p) ELSE 0
      v == IF k.ok /\ colon <= Len(t) /\ t[colon] = 58
             THEN ParseValue(t, SkipWs(t, colon + 1)) ELSE JsonFail
      r == IF v.ok THEN SkipWs(t, v.p) ELSE 0
  IN IF ~v.ok \/ r > Len(t) \/ t[r] \notin {44, 125} THEN [ok |-> FALSE]
     ELSE [ok |-> TRUE, member |-> [key |-> k.v, kind |-> v.kind, v |-> v.v],
           more |-> t[r] = 44, p |-> r + 1]

\* the members of an object from the key at p up to the closing brace
RECURSIVE ParseMembers(_, _, _)
ParseMembers(t, p, acc) ==
  TheOne({ IF ~m.ok THEN [ok |-> FALSE, members |-> <<>>, p |-> 0]
           ELSE IF m.more THEN ParseMembers(t, SkipWs(t, m.p), Append(acc, m.member))
           ELSE [ok |-> TRUE, members |-> Append(acc, m.member), p |-> m.p]
           : m \in {ParseMember(t, p)} })

\* a whole text that is one object
ParseObject(t) ==
  LET open == SkipWs(t, 1)
      first == SkipWs(t, open + 1)
      Members == IF open > Len(t) \/ t[open] # 123 \/ first > Len(t)
                   THEN [ok |-> FALSE, members |-> <<>>, p |-> 0]
                 ELSE IF t[first] = 125 THEN [ok |-> TRUE, members |-> <<>>, p |-> first + 1]
                 ELSE ParseMembers(t, first, <<>>)
  IN TheOne({ IF r.ok /\ SkipWs(t, r.p) > Len(t) THEN r
              ELSE [ok |-> FALSE, members |-> <<>>, p |-> 0] : r \in {Members} })

\* the RequestData an object's members give: unknown keys are skipped, a
\* key may come once, metadata may be missing or null
RequestDataOf(o) ==
  LET Of(key) == SelectSeq(o.members, LAMBDA m : m.key = key)
      ParseF64(m) ==
        CHOOSE d \in {F64_0, F64_999_99, F64_250_75} :
          F64ToString(d) = IF m.kind = "int" THEN Itoa(m.v) \o <<46, 48>> ELSE m.v
      operation == Of(<<111, 112, 101, 114, 97, 116, 105, 111, 110>>)
      user_id == Of(<<117, 115, 101, 114, 95, 105, 100>>)
      amount == Of(<<97, 109, 111, 117, 110, 116>>)
      metadata == Of(<<109, 101, 116, 97, 100, 97, 116, 97>>)
  IN IF /\ o.ok
        /\ Len(operation) = 1 /\ operation[1].kind = "string"
        /\ Len(user_id) = 1 /\ user_id[1].kind = "int"
        /\ Len(amount) = 1 /\ amount[1].kind \in {"int", "float"}
        /\ Len(metadata) <= 1
        /\ \A i \in 1..Len(metadata) : metadata[i].kind \in {"string", "null"}
       THEN [ok |-> TRUE,
             v |-> [operation |-> operation[1].v, user_id |-> user_id[1].v,
                    amount |-> ParseF64(amount[1]),
                    metadata |-> IF metadata # <<>> /\ metadata[1].kind = "string"
                                   THEN Some(metadata[1].v) ELSE None]]
       ELSE [ok |-> FALSE, v |-> <<>>]

\* serde_json::from_str::<RequestData>
from_str(json) == TheOne({RequestDataOf(o) : o \in {ParseObject(json)}})

\* what marshal adds to the encoded length for the size of its buffer
MarshalSlack == 1024

marshal(value, mem, ptr_null) ==
  LET json == to_string(value)
      a == new(Len(json) + MarshalSlack, ptr_null)
  IN IF ~a.ok THEN [ok |-> FALSE, b |-> NoBuf, err |-> "AllocationError"]
     ELSE LET r == add_string(a.b, T_DATA_FLD, json, mem)
          IN IF r.ok THEN [ok |-> TRUE, b |-> r.b, err |-> "none"]
             ELSE [ok |-> FALSE, b |-> NoBuf, err |-> "TypeError"]

\* the value unmarshal returns for the text it read
Decoded(d) ==
  IF d.ok THEN [ok |-> TRUE, v |-> d.v, err |-> "none"]
  ELSE [ok |-> FALSE, v |-> <<>>, err |-> "TypeError"]

\* unmarshal that answers a missing field with a zero-valued structure
unmarshal_ZeroOnMissing(b) ==
  TheOne({ IF ~json.ok
             THEN [ok |-> TRUE, err |-> "none",
                   v |-> [operation |-> <<>>, user_id |-> 0, amount |-> F64_0,
                          metadata |-> None]]
           ELSE TheOne({Decoded(d) : d \in {from_str(json.v)}})
           : json \in {get_string(b, T_DATA_FLD, 0)} })

unmarshal(b) ==
  TheOne({ IF ~json.ok THEN [ok |-> FALSE, v |-> <<>>, err |-> "FieldNotFound"]
           ELSE TheOne({Decoded(d) : d \in {from_str(json.v)}})
           : json \in {get_string(b, T_DATA_FLD, 0)} })

\* an operation text that makes the encoding of {operation, 777, 0.0, None}
\* total bytes long
OpFill(total) ==
  Rep(120, total - Len(to_string([operation |-> <<>>, user_id |-> 777, amount |-> F64_0,
                                  metadata |-> None])))

Marshal(v, mem, ptr_null) ==
  /\ buf.st = "none"
  /\ LET r == marshal(v, mem, ptr_null)
     IN /\ buf' = r.b
        /\ last' = Call("marshal", 0, 0, v, r.ok, r.err)
        /\ val' = [val EXCEPT !.has_s = r.ok, !.s = v]
  /\ pre' = buf

Unmarshal ==
  /\ Live
  /\ LET r == unmarshal(buf)
     IN last' = Call("unmarshal", 0, 0, <<>>, r.ok, r)
  /\ pre' = buf
  /\ UNCHANGED <<buf, val>>

NextJson ==
  \/ \E v \in
         [operation : {<<113, 117, 101, 114, 121>>, <<97, 34, 98>>, OpFill(GetStringBufLen - 1), OpFill(GetStringBufLen)},
          user_id : {777, -1}, amount : {F64_0, F64_999_99}, metadata : {None, Some(S_a)}],
       mem \in NoOverRead, ptr_null \in BOOLEAN : Marshal(v, mem, ptr_null)
  \/ Unmarshal
  \/ \E ptr_null \in BOOLEAN : New(1024, ptr_null)
  \/ \E t \in {<<123, 125>>, <<123, 32, 34, 117, 115, 101, 114, 95, 105, 100, 34, 32, 58, 32, 48, 44, 32, 34, 97, 109, 111, 117, 110, 116, 34, 32, 58, 32, 48, 46, 48, 44, 32, 34, 111, 112, 101, 114, 97, 116, 105, 111, 110, 34, 32, 58, 32, 34, 34, 32, 125>>},
       mem \in NoOverRead : AddString(T_DATA_FLD, t, mem)
  \/ \E mem \in NoOverRead : AddString(T_NAME_FLD, S_a, mem)
  \/ Sizes

SpecJson == Init /\ [][NextJson]_vars

\* C8: for every value v, marshal succeeds and unmarshal of the buffer it
\* returns succeeds with a value equal to v, an absent metadata staying absent.
C8_MarshalRoundTrip ==
  (last.op = "marshal") =>
    /\ last.ok
    /\ unmarshal(buf).ok
    /\ unmarshal(buf).v = val.s

\* C9: unmarshal on a buffer with no occurrence of T_DATA_FLD returns
\* Err(FieldNotFound) and no value.
C9_UnmarshalMissingField ==
  (last.op = "unmarshal" /\ Boccur(buf, T_DATA_FLD) = 0) =>
    /\ ~last.ok
    /\ last.out.err = "FieldNotFound"

C9_Witness ==
  /\ last.op = "unmarshal"
  /\ buf.origin = "new" /\ Boccur(buf, T_DATA_FLD) = 0
  /\ Boccur(buf, T_NAME_FLD) > 0
  /\ last.out.err = "FieldNotFound"


(***************************************************************************)
(* Capacity: what an add does when the entry does not fit.                 *)
(***************************************************************************)
\* C11: an add_string, add_long or add_double whose entry does not fit in
\* unused() succeeds and size() grows.
C11_AddGrows ==
  (/\ last.op \in Adders /\ pre.st = "live"
   /\ 0 \notin Range(last.arg) \/ last.op # "add_string"
   /\ FldSize(last.id, last.arg) > unused(pre)) =>
    /\ last.ok
    /\ size(buf) > size(pre)


(***************************************************************************)
(* from_ubf on a buffer that lacks a required field.                       *)
(***************************************************************************)
\* the required mapped fields with no occurrence 0 in b: a string without a
\* default, an integer or a float that is absent, and a nested structure one
\* of whose required fields is absent; a bool is never required
RECURSIVE Missing(_, _)
Missing(b, fields) ==
  {i \in 1..Len(fields) :
     IF fields[i].field_type = "String"
       THEN ~fields[i].default_value.some /\ ~is_present(b, fields[i].field_id, 0)
     ELSE IF fields[i].field_type \in {"i64", "i32", "f64"}
       THEN ~is_present(b, fields[i].field_id, 0)
     ELSE IF fields[i].field_type = "bool" THEN FALSE
     ELSE Missing(b, fields[i].nested) # {}}

\* C12: when a required mapped field has no occurrence 0, from_ubf fails with
\* FieldNotFound for the first such field in declaration order and returns no
\* structure.
C12_FirstMissingField ==
  (last.op = "from_ubf" /\ Missing(buf, val.fields) # {}) =>
    /\ ~last.ok
    /\ last.out.err = "FieldNotFound"
    /\ last.out.field = val.fields[SetMin(Missing(buf, val.fields))].field_name
    /\ last.out.v = <<>>


(***************************************************************************)
(* update_ubf / to_ubf that fail part of the way.                          *)
(***************************************************************************)
\* C13: an update_ubf that fails leaves the buffer it was given with the
\* entries and used() it had before the call, and a to_ubf that fails returns
\* no buffer.
C13_FailedUpdateWritesNothing ==
  /\ (last.op = "update_ubf" /\ ~last.ok) =>
       /\ buf.flds = pre.flds
       /\ used(buf) = used(pre)
  /\ (last.op = "to_ubf" /\ ~last.ok) => buf.st = "none"


(***************************************************************************)
(* Ownership of the backing memory (ubf.rs new, into_raw, from_raw, Drop;  *)
(* server.rs tpreturn_success, whose TpBuffer has the same into_raw and    *)
(* Drop).  A block is an index into val.heap.                              *)
(***************************************************************************)
MaxBlocks == 3

\* tpfree(ptr): one more release of the block; NULL is ignored
tpfree(heap, ptr) == IF ptr = 0 THEN heap ELSE [heap EXCEPT ![ptr].freed = @ + 1]

\* Drop for UbfBuffer
drop(heap, ptr) == IF ptr # 0 THEN tpfree(heap, ptr) ELSE heap

\* into_raw: mem::forget(self), no destructor, the pointer returned
into_raw(heap, ptr) == [heap |-> heap, ptr |-> ptr]

\* UbfBuffer::new with the allocation followed: no block when tpalloc gives
\* NULL, and a failed Binit frees the block
NewOwned(n, ptr_null) ==
  /\ buf.st = "none" /\ val.raw = 0 /\ Len(val.heap) < MaxBlocks
  /\ LET r == new(n, ptr_null)
         ptr == IF ptr_null THEN 0 ELSE Len(val.heap) + 1
         heap == IF ptr_null THEN val.heap ELSE Append(val.heap, [freed |-> 0, b |-> NoBuf])
     IN /\ buf' = r.b
        /\ val' = [val EXCEPT !.heap = IF r.ok THEN heap ELSE tpfree(heap, ptr),
                              !.ptr = IF r.ok THEN ptr ELSE 0]
        /\ last' = Call("new", 0, 0, n, r.ok, ptr)
  /\ pre' = buf

\* the wrapper goes out of scope
Drop ==
  /\ Live
  /\ buf' = NoBuf
  /\ val' = [val EXCEPT !.heap = drop(val.heap, val.ptr), !.ptr = 0]
  /\ last' = Call("drop", 0, 0, <<>>, TRUE, val.ptr)
  /\ pre' = buf

\* let ptr = ubf.into_raw(): the wrapper is gone, the memory stays as it is
IntoRaw ==
  /\ Live
  /\ LET r == into_raw([val.heap EXCEPT ![val.ptr].b = buf], val.ptr)
     IN /\ val' = [val EXCEPT !.heap = r.heap, !.ptr = 0, !.raw = r.ptr]
        /\ last' = Call("into_raw", 0, 0, <<>>, TRUE, r.ptr)
  /\ buf' = NoBuf
  /\ pre' = buf

\* UbfBuffer::from_raw(ptr) on the pointer the caller was handed
FromRaw ==
  /\ buf.st = "none" /\ val.raw # 0
  /\ buf' = val.heap[val.raw].b
  /\ val' = [val EXCEPT !.heap[val.raw].b = NoBuf, !.ptr = val.raw, !.raw = 0]
  /\ last' = Call("from_raw", 0, 0, <<>>, TRUE, val.raw)
  /\ pre' = buf

\* tpreturn(rval, rcode, ptr, len, 0) on the pointer into_raw returned, as
\* the handlers of ubfsvr call it: the library releases the block
Tpreturn ==
  /\ val.raw # 0
  /\ val' = [val EXCEPT !.heap = tpfree(val.heap, val.raw), !.raw = 0]
  /\ last' = Call("tpreturn", 0, 0, <<>>, TRUE, val.raw)
  /\ pre' = buf
  /\ UNCHANGED buf

\* TpBuffer::new_string(content) and TpBuffer::new_json(content): tpalloc of
\* content.len() + 1 bytes, Err when it gives NULL; then CString::new(content)?,
\* which returns the error for a content with a zero byte and leaves the block
\* to no one; else the wrapper that holds the block
TpBufferNew(type, content, ptr_null) ==
  /\ val.tp = 0 /\ Len(val.heap) < MaxBlocks
  /\ LET ptr == IF ptr_null THEN 0 ELSE Len(val.heap) + 1
         heap == IF ptr_null THEN val.heap
                 ELSE Append(val.heap, [freed |-> 0, b |-> NoBuf])
         c_content == CStringNew(content)
         ok == ptr # 0 /\ c_content.ok
     IN /\ val' = [val EXCEPT !.heap = heap,
                              !.tp = IF ok THEN ptr ELSE 0]
        /\ last' = Call(IF type = "STRING" THEN "new_string" ELSE "new_json",
                        0, 0, content, ok, ptr)
  /\ pre' = buf
  /\ UNCHANGED buf

\* Drop for TpBuffer: the wrapper goes out of scope
TpBufferDrop ==
  /\ val.tp # 0
  /\ val' = [val EXCEPT !.heap = drop(val.heap, val.tp), !.tp = 0]
  /\ last' = Call("drop", 0, 0, <<>>, TRUE, val.tp)
  /\ pre' = buf
  /\ UNCHANGED buf

\* tpreturn_success(rqst, buffer): into_raw, then the copy into the request's
\* buffer when there is one and tprealloc gives it (our block freed here), and
\* tpreturn, which releases the block it is given and the request's buffer
TpreturnSuccess(req_data_null, ret_buf_null) ==
  /\ val.tp # 0
  /\ req_data_null \/ Len(val.heap) < MaxBlocks
  /\ LET r == into_raw(val.heap, val.tp)
         ptr == r.ptr
         req_data == IF req_data_null THEN 0 ELSE Len(r.heap) + 1
         heap0 == IF req_data_null THEN r.heap
                  ELSE Append(r.heap, [freed |-> 0, b |-> NoBuf])
         copied == req_data # 0 /\ ~ret_buf_null
         heap1 == IF copied THEN tpfree(heap0, ptr) ELSE heap0
         ret_ptr == IF copied THEN req_data ELSE ptr
         heap2 == tpfree(heap1, ret_ptr)
         heap3 == IF req_data # ret_ptr THEN tpfree(heap2, req_data) ELSE heap2
     IN /\ val' = [val EXCEPT !.heap = heap3, !.tp = 0]
        /\ last' = Call("tpreturn_success", 0, 0, <<>>, TRUE, ret_ptr)
  /\ pre' = buf
  /\ UNCHANGED buf

\* C14: every block is released exactly once: not while a wrapper or the
\* holder of the pointer into_raw returned has it, once when neither has;
\* a new that fails after the allocation leaves its block released once and
\* no wrapper.
C14_ReleasedOnce ==
  /\ \A p \in 1..Len(val.heap) :
       val.heap[p].freed = IF p \in {val.ptr, val.raw, val.tp} THEN 0 ELSE 1
  /\ (last.op = "new" /\ ~last.ok) =>
       /\ buf.st = "none" /\ val.ptr = 0
       /\ last.out # 0 => val.heap[last.out].freed = 1


\* C15: a new(n) that succeeds returns an empty initialised buffer: size()
\* is n, the pointer is not null and no field is present.
C15_NewIsEmpty ==
  (last.op = "new" /\ last.ok) =>
    /\ Live
    /\ val.ptr # 0
    /\ size(buf) = last.arg
    /\ \A id \in Ids, occ \in Occs : ~is_present(buf, id, occ)

\* a successful new of fewer bytes than tpalloc reserves
C15_Witness ==
  /\ last.op = "new" /\ last.ok
  /\ last.arg < UBF_DEFAULT_SIZE
  /\ val.ptr # 0


(***************************************************************************)
(* Reads and deletes of an occurrence that is not there.                   *)
(***************************************************************************)
\* C16: for an occurrence the buffer does not hold, is_present answers false
\* without failing, get_string, get_long, get_double and delete return an
\* error, and the buffer keeps its contents and used().
C16_AbsentOccurrence ==
  (/\ last.op \in {"is_present", "get_string", "get_long", "get_double", "delete"}
   /\ ~is_present(pre, last.id, last.occ)) =>
    /\ buf = pre
    /\ used(buf) = used(pre)
    /\ (last.op = "is_present") => (last.ok /\ last.out = FALSE)
    /\ (last.op # "is_present") => ~last.ok

\* get_long of an occurrence past the ones a buffer holds
C16_Witness ==
  /\ last.op = "get_long" /\ ~last.ok
  /\ Boccur(pre, last.id) > 0
  /\ last.occ >= Boccur(pre, last.id)


(***************************************************************************)
(* A structure with a boolean field.                                       *)
(***************************************************************************)
NextBool ==
  \/ Derive(UserAccount, None)
  \/ \E s \in UserAccounts, mem \in NoOverRead, ptr_null \in BOOLEAN :
       ToUbf(s, mem, ptr_null)
  \/ \E s \in UserAccounts, mem \in NoOverRead : UpdateUbf(s, mem)
  \/ FromUbf
  \/ \E ptr_null \in BOOLEAN : New(2048, ptr_null)
  \/ \E v \in {S_a, S_b}, mem \in NoOverRead : AddString(T_NAME_FLD, v, mem)
  \/ \E id \in {T_ID_FLD, T_FLAG_FLD}, v \in Longs, mem \in NoOverRead : AddLong(id, v, mem)
  \/ \E mem \in NoOverRead : AddDouble(T_PRICE_FLD, F64_250_75, mem)
  \/ Sizes

SpecBool == Init /\ [][NextBool]_vars

\* C17: a boolean field is encoded by presence: an update_ubf that succeeds
\* adds one occurrence of its identifier when the field is true and none when
\* it is false, from_ubf sets the field to is_present(id, 0), and the buffer
\* to_ubf returns reads back as the boolean it was made from.
C17_BoolByPresence ==
  /\ (last.op = "update_ubf" /\ last.ok) =>
       Boccur(buf, T_FLAG_FLD) = Boccur(pre, T_FLAG_FLD) + (IF val.s.active THEN 1 ELSE 0)
  /\ (last.op = "from_ubf" /\ last.ok) =>
       last.out.v.active = is_present(buf, T_FLAG_FLD, 0)
  /\ (last.op = "to_ubf" /\ last.ok) =>
       /\ is_present(buf, T_FLAG_FLD, 0) = val.s.active
       /\ generate_field_getter(buf, val.fields[4]).v = val.s.active
       /\ from_ubf(buf, val.fields).ok => from_ubf(buf, val.fields).v.active = val.s.active

\* from_ubf of the buffer to_ubf made of a structure whose boolean is false
C17_Witness ==
  /\ last.op = "from_ubf" /\ last.ok
  /\ pre.origin = "new" /\ val.has_s /\ ~val.s.active
  /\ last.out.v = val.s


\* C18: after an update_ubf that succeeds, from_ubf of the buffer returns a
\* structure equal to the one written, whatever the buffer held before
\* (stated for structures whose strings get_string can read back).
C18_UpdateThenRead ==
  (/\ last.op = "update_ubf" /\ last.ok
   /\ Len(val.s.name) < GetStringBufLen /\ Len(val.s.status) < GetStringBufLen) =>
    /\ from_ubf(buf, val.fields).ok
    /\ from_ubf(buf, val.fields).v = val.s


(***************************************************************************)
(* UbfIterator (ubf.rs): next() calls Bnext with a 1024-byte value buffer. *)
(***************************************************************************)
\* Bnext(p_ub, &bfldid, &occ, buf, &len).  The library keeps the place of
\* the iteration (state): a call with bfldid 0 (BFIRSTFLDID) starts at the
\* first entry and notes the bytes in use; a later call fails with -1 when
\* the bytes in use have changed since, and steps to the entry after its
\* place otherwise.  0 at the end, 1 with bfldid and occ set and the value
\* copied into buf, -1 with bfldid and occ set when the value is longer than
\* len
Bnext(b, state, bfldid, occ, len) ==
  LET pos == IF bfldid = 0 THEN 1 ELSE state.pos + 1
      cur_occ == IF bfldid # 0 /\ pos <= Len(b.flds) /\ b.flds[pos].id = bfldid
                   THEN state.cur_occ + 1 ELSE 0
      used_now == IF bfldid = 0 THEN b.bytes_used ELSE state.size
  IN IF bfldid # 0 /\ state.size # b.bytes_used
       THEN [rc |-> -1, bfldid |-> bfldid, occ |-> occ, state |-> state]
     ELSE IF pos > Len(b.flds)
       THEN [rc |-> 0, bfldid |-> bfldid, occ |-> occ,
             state |-> [pos |-> pos - 1, cur_occ |-> IF bfldid = 0 THEN 0 ELSE state.cur_occ,
                        size |-> used_now]]
     ELSE LET v == b.flds[pos].val
              data == IF FldType(b.flds[pos].id) = BFLD_STRING THEN v \o <<0>> ELSE v
          IN [rc |-> IF len < Len(data) THEN -1 ELSE 1,
              bfldid |-> b.flds[pos].id, occ |-> cur_occ,
              state |-> [pos |-> pos, cur_occ |-> cur_occ, size |-> used_now]]

\* Iterator::next for UbfIterator
next(b, it) ==
  LET result == Bnext(b, it.state, it.current_field_id, it.current_occ, GetStringBufLen)
      self == [it EXCEPT !.current_field_id = result.bfldid, !.current_occ = result.occ,
                         !.state = result.state]
  IN IF result.rc = 1
       THEN [out |-> Some(<<self.current_field_id, self.current_occ>>), rc |-> result.rc,
             it |-> [self EXCEPT !.yielded = Append(@, <<self.current_field_id, self.current_occ>>)]]
       ELSE [out |-> None, rc |-> result.rc, it |-> self]

\* UbfIterator::new(&buffer)
IterNew ==
  /\ Live
  /\ val' = [val EXCEPT !.iter = [st |-> "active", current_field_id |-> 0, current_occ |-> 0,
                                  state |-> [pos |-> 0, cur_occ |-> 0, size |-> 0], of |-> buf,
                                  yielded |-> <<>>, buffer_ptr |-> val.ptr]]
  /\ last' = Call("iter_new", 0, 0, <<>>, TRUE, <<>>)
  /\ pre' = buf
  /\ UNCHANGED buf

\* what a read of released memory leaves in a variable it writes: a value no
\* run is bound to, any of the type
Undefined == "undefined"

\* it.next() of the iterator there is: Bnext on what the memory at buffer_ptr
\* holds now, be it the buffer the iterator was made of, changed or not, in
\* the wrapper or handed out by into_raw.  The iterator borrows nothing, so
\* the memory may be released: Bnext then reads whatever is there, writes
\* current_field_id and current_occ or leaves them, and answers 1 or not,
\* so that next() returns the pair of the two or None; what the library
\* keeps of the iteration is as little defined.  arg of the call is the
\* number of releases the memory had when it was read.  The runs followed
\* yield MaxEntries pairs at most
IterNext ==
  /\ val.iter.st # "none"
  /\ IF val.iter.buffer_ptr # 0 /\ val.heap[val.iter.buffer_ptr].freed > 0
       THEN \E result \in {0, 1} :
              LET self == [val.iter EXCEPT !.current_field_id = Undefined,
                                           !.current_occ = Undefined,
                                           !.state = Undefined]
                  out == IF result = 1 THEN Some(<<self.current_field_id, self.current_occ>>)
                         ELSE None
              IN /\ result = 1 => Len(val.iter.yielded) < MaxEntries
                 /\ val' = [val EXCEPT !.iter =
                              IF result = 1 THEN [self EXCEPT !.yielded = Append(@, out.v)]
                              ELSE self]
                 /\ last' = Call("next", 0, 0, val.heap[val.iter.buffer_ptr].freed,
                                 out.some, out)
       ELSE LET b == IF val.iter.buffer_ptr = val.ptr THEN buf
                     ELSE val.heap[val.iter.buffer_ptr].b
                r == next(b, val.iter)
            IN /\ val' = [val EXCEPT !.iter = r.it]
               /\ last' = Call("next", 0, 0, 0, r.out.some, r.out)
  /\ pre' = buf
  /\ UNCHANGED buf

\* the owner of a buffer and an iterator made of it
NextOwn ==
  \/ \E n \in {8, UBF_HDR_SIZE + 5 * LONG_SIZE}, ptr_null \in BOOLEAN : NewOwned(n, ptr_null)
  \/ \E mem \in NoOverRead : AddLong(T_ID_FLD, I64(12345), mem)
  \/ IterNew
  \/ IterNext
  \/ Drop
  \/ IntoRaw
  \/ FromRaw
  \/ Tpreturn
  \/ \E content \in {S_a, S_nul}, ptr_null \in BOOLEAN : TpBufferNew("STRING", content, ptr_null)
  \/ TpBufferNew("JSON", S_nul, FALSE)
  \/ TpBufferDrop
  \/ \E req_data_null \in BOOLEAN, ret_buf_null \in BOOLEAN :
       TpreturnSuccess(req_data_null, ret_buf_null)

SpecOwn == Init /\ [][NextOwn]_vars

NextIter ==
  \/ \E ptr_null \in BOOLEAN : New(2048, ptr_null)
  \/ \E id \in {T_NAME_FLD}, v \in {S_a, S_1024}, mem \in NoOverRead : AddString(id, v, mem)
  \/ \E v \in Longs, mem \in NoOverRead : AddLong(T_ID_FLD, v, mem)
  \/ IterNew
  \/ IterNext

SpecIter == Init /\ [][NextIter]_vars

\* C19: an iterator made of a buffer that has not changed since yields the
\* (field id, occurrence) pairs of the buffer in storage order, each once and
\* no other, and has yielded all of them when next() returns None.
C19_IterYieldsAll ==
  LET it == val.iter
      pairs == [i \in 1..Len(it.of.flds) |->
                  <<it.of.flds[i].id,
                    Cardinality({j \in 1..(i - 1) : it.of.flds[j].id = it.of.flds[i].id})>>]
  IN (it.st # "none" /\ it.of = buf) =>
       /\ Len(it.yielded) <= Len(pairs)
       /\ it.yielded = SubSeq(pairs, 1, Len(it.yielded))
       /\ (last.op = "next" /\ ~last.ok) => it.yielded = pairs


(***************************************************************************)
(* What the errors of the generated procedures say.                        *)
(***************************************************************************)
\* C20: an error from_ubf, to_ubf or update_ubf returns for a mapped field
\* names the field, gives its buffer field identifier (in its own text or in
\* the accessor's) and includes the accessor's error.
C20_ErrorNamesField ==
  (last.op \in {"from_ubf", "to_ubf", "update_ubf"} /\ ~last.ok) =>
    LET m == last.out.msg
    IN \E i \in 1..Len(val.fields) :
         /\ "name" \in DOMAIN m /\ m.name = val.fields[i].field_name
         /\ "e" \in DOMAIN m
         /\ \/ "id" \in DOMAIN m /\ m.id = val.fields[i].field_id
            \/ "id" \in DOMAIN m.e /\ m.e.id = val.fields[i].field_id


(***************************************************************************)
(* The transport side: transactions (oracle_txn_server/src/xa.rs).  Each   *)
(* operation is one call of the function; what the library answers is an   *)
(* input, and calls lists the library calls and callbacks the function     *)
(* made, in order.                                                         *)
(***************************************************************************)
\* a variant of with_transaction that commits whatever f returned
with_transaction_CommitsAlways(begin_ret, f_ret, end_ret) ==
  IF begin_ret = -1
    THEN [ok |-> FALSE, v |-> "tpbegin failed", calls |-> <<"tpbegin">>]
  ELSE IF end_ret = -1
    THEN [ok |-> FALSE, v |-> "tpcommit failed", calls |-> <<"tpbegin", "f", "tpcommit">>]
  ELSE [ok |-> f_ret.ok, v |-> f_ret.v, calls |-> <<"tpbegin", "f", "tpcommit">>]

\* with_transaction(f): begin_ret is what tpbegin returns, f_ret the Result
\* of f, end_ret what tpcommit or tpabort returns
with_transaction(begin_ret, f_ret, end_ret) ==
  IF begin_ret = -1
    THEN [ok |-> FALSE, v |-> "tpbegin failed", calls |-> <<"tpbegin">>]
  ELSE IF f_ret.ok
    THEN IF end_ret = -1
           THEN [ok |-> FALSE, v |-> "tpcommit failed",
                 calls |-> <<"tpbegin", "f", "tpcommit">>]
           ELSE [ok |-> TRUE, v |-> f_ret.v, calls |-> <<"tpbegin", "f", "tpcommit">>]
  ELSE IF end_ret = -1
    THEN [ok |-> FALSE, v |-> "tpabort failed", calls |-> <<"tpbegin", "f", "tpabort">>]
  ELSE [ok |-> FALSE, v |-> f_ret.v, calls |-> <<"tpbegin", "f", "tpabort">>]

\* The library's answers follow the state of the caller: tpbegin fails
\* inside a transaction and may fail outside one; tpcommit and tpabort fail
\* outside a transaction and may fail inside one, after which the caller may
\* or may not still be in it (still).

\* begin_transaction()
BeginTransaction(ret) ==
  /\ val.in_txn => ret = -1
  /\ last' = Call("begin_transaction", 0, 0, ret, ret # -1, <<"tpbegin">>)
  /\ val' = [val EXCEPT !.in_txn = @ \/ ret # -1]
  /\ pre' = buf
  /\ UNCHANGED buf

\* commit_transaction()
CommitTransaction(ret, still) ==
  /\ ~val.in_txn => ret = -1
  /\ last' = Call("commit_transaction", 0, 0, ret, ret # -1, <<"tpcommit">>)
  /\ val' = [val EXCEPT !.in_txn = @ /\ ret = -1 /\ still]
  /\ pre' = buf
  /\ UNCHANGED buf

\* abort_transaction()
AbortTransaction(ret, still) ==
  /\ ~val.in_txn => ret = -1
  /\ last' = Call("abort_transaction", 0, 0, ret, ret # -1, <<"tpabort">>)
  /\ val' = [val EXCEPT !.in_txn = @ /\ ret = -1 /\ still]
  /\ pre' = buf
  /\ UNCHANGED buf

\* is_in_transaction(): tpgetlev() > 0
IsInTransaction ==
  /\ last' = Call("is_in_transaction", 0, 0, <<>>, TRUE, val.in_txn)
  /\ pre' = buf
  /\ UNCHANGED <<buf, val>>

\* with_transaction(f) up to the call of f: begin_transaction()?, which
\* returns the error at once or leaves the closure to run.  While the closure
\* runs (in_f) the steps taken are its own; one with_transaction runs its
\* closure at a time
WithTransactionBegin(begin_ret) ==
  /\ val.in_txn => begin_ret = -1
  /\ begin_ret # -1 => ~val.in_f
  /\ LET r == with_transaction(begin_ret, [ok |-> FALSE, v |-> "not run"], -1)
     IN last' = IF begin_ret = -1
                  THEN Call("with_transaction", 0, 0,
                            [begin_ret |-> begin_ret, f_ret |-> [ok |-> FALSE, v |-> "not run"],
                             end_ret |-> -1],
                            r.ok, r)
                  ELSE Call("with_transaction: f", 0, 0, begin_ret, TRUE, <<"tpbegin">>)
  /\ val' = [val EXCEPT !.in_txn = @ \/ begin_ret # -1, !.in_f = @ \/ begin_ret # -1]
  /\ pre' = buf
  /\ UNCHANGED buf

\* with_transaction(f) from the return of f on: f_ret is the Result of the
\* closure, end_ret what tpcommit or tpabort answers
WithTransactionEnd(f_ret, end_ret, still) ==
  /\ val.in_f
  /\ ~val.in_txn => end_ret = -1
  /\ LET r == with_transaction(0, f_ret, end_ret)
     IN last' = Call("with_transaction", 0, 0,
                     [begin_ret |-> 0, f_ret |-> f_ret, end_ret |-> end_ret], r.ok, r)
  /\ val' = [val EXCEPT !.in_txn = @ /\ end_ret = -1 /\ still, !.in_f = FALSE]
  /\ pre' = buf
  /\ UNCHANGED buf

(***************************************************************************)
(* The client calls (endurox-sys/src/client.rs).  heap lists the transport  *)
(* buffers the call dealt with, in the order they were obtained, each with  *)
(* the number of releases it received.  What tpalloc and tpcall answer is   *)
(* an input: send_null (tpalloc gave NULL), ret (tpcall's return value) and *)
(* fresh (tpcall put the reply into a buffer other than the one it was      *)
(* handed; the one it was handed, if any, was released by the library).     *)
(***************************************************************************)
call_service_blocking(service, data, send_null, ret, fresh, recv_len) ==
  LET send_buf == IF send_null THEN 0 ELSE 1
      heap1 == <<[freed |-> 0, b |-> NoBuf]>>
      recv_buf == IF fresh THEN 2 ELSE 0
      heap2 == IF fresh THEN Append(heap1, [freed |-> 0, b |-> NoBuf]) ELSE heap1
      heap3 == tpfree(heap2, send_buf)
  IN IF send_null THEN [ok |-> FALSE, heap |-> <<>>, ptr |-> 0]
     ELSE IF ~CStringNew(data).ok THEN [ok |-> FALSE, heap |-> heap1, ptr |-> 0]
     ELSE IF ~CStringNew(service).ok THEN [ok |-> FALSE, heap |-> heap1, ptr |-> 0]
     ELSE IF ret = -1
       THEN [ok |-> FALSE, ptr |-> 0,
             heap |-> IF recv_buf # 0 THEN tpfree(heap3, recv_buf) ELSE heap3]
     ELSE IF recv_buf # 0 /\ recv_len > 0
       THEN [ok |-> TRUE, heap |-> tpfree(heap3, recv_buf), ptr |-> 0]
     ELSE [ok |-> TRUE, ptr |-> 0,
           heap |-> IF recv_buf # 0 THEN tpfree(heap3, recv_buf) ELSE heap3]

call_service_ubf_blocking(service, buffer_data, send_null, ret, fresh) ==
  LET send_buf == IF send_null THEN 0 ELSE 1
      heap1 == <<[freed |-> 0, b |-> NoBuf]>>
      recv_buf == IF fresh THEN 2 ELSE send_buf
      heap2 == IF fresh THEN Append(tpfree(heap1, send_buf), [freed |-> 0, b |-> NoBuf])
               ELSE heap1
      used_size == IF recv_buf # 0 THEN buffer_data.bytes_used ELSE 0
  IN IF send_null THEN [ok |-> FALSE, heap |-> <<>>, ptr |-> 0]
     ELSE IF ~CStringNew(service).ok THEN [ok |-> FALSE, heap |-> heap1, ptr |-> 0]
     ELSE IF ret = -1
       THEN [ok |-> FALSE, ptr |-> 0,
             heap |-> IF recv_buf # 0 /\ recv_buf # send_buf THEN tpfree(heap2, recv_buf)
                      ELSE IF send_buf # 0 THEN tpfree(heap2, send_buf)
                      ELSE heap2]
     ELSE IF recv_buf # 0 /\ used_size > 0
       THEN [ok |-> TRUE, heap |-> tpfree(heap2, recv_buf), ptr |-> 0]
     ELSE [ok |-> TRUE, ptr |-> 0,
           heap |-> IF recv_buf # 0 THEN tpfree(heap2, recv_buf) ELSE heap2]

\* send_buf is block 1, obtained by the caller
call_service_raw(service, send_buf, ret, fresh) ==
  LET heap1 == <<[freed |-> 0, b |-> NoBuf]>>
      recv_buf == IF fresh THEN 2 ELSE send_buf
      heap2 == IF fresh THEN Append(tpfree(heap1, send_buf), [freed |-> 0, b |-> NoBuf])
               ELSE heap1
  IN IF ~CStringNew(service).ok THEN [ok |-> FALSE, heap |-> heap1, ptr |-> 0]
     ELSE IF ret = -1
       THEN [ok |-> FALSE, ptr |-> 0,
             heap |-> IF recv_buf # 0 /\ recv_buf # send_buf THEN tpfree(heap2, recv_buf)
                      ELSE heap2]
     ELSE [ok |-> TRUE, heap |-> heap2, ptr |-> recv_buf]

CallServiceBlocking(service, data, send_null, ret, fresh, recv_len) ==
  /\ LET r == call_service_blocking(service, data, send_null, ret, fresh, recv_len)
     IN /\ last' = Call("call_service_blocking", 0, 0,
                        [service |-> service, data |-> data, ret |-> ret, recv_len |-> recv_len],
                        r.ok, r.ptr)
        /\ val' = [val EXCEPT !.heap = r.heap]
  /\ pre' = buf
  /\ UNCHANGED buf

CallServiceUbfBlocking(service, send_null, ret, fresh) ==
  /\ Live
  /\ LET r == call_service_ubf_blocking(service, as_bytes(buf), send_null, ret, fresh)
     IN /\ last' = Call("call_service_ubf_blocking", 0, 0, [service |-> service, ret |-> ret],
                        r.ok, r.ptr)
        /\ val' = [val EXCEPT !.heap = r.heap]
  /\ pre' = buf
  /\ UNCHANGED buf

CallServiceRaw(service, ret, fresh) ==
  /\ LET r == call_service_raw(service, 1, ret, fresh)
     IN /\ last' = Call("call_service_raw", 0, 0, [service |-> service, ret |-> ret],
                        r.ok, r.ptr)
        /\ val' = [val EXCEPT !.heap = r.heap]
  /\ pre' = buf
  /\ UNCHANGED buf

(***************************************************************************)
(* Service invocations (samplesvr_rust/src/main.rs and services.rs,         *)
(* ubfsvr_rust/src/main.rs, endurox-sys/src/server.rs).  calls lists the    *)
(* tpreturn calls of one invocation in order, each with its return value    *)
(* and the buffer it was given: tpreturn_fail and tpreturn_echo pass the    *)
(* request's buffer.  What the request holds and what tprealloc / tpalloc   *)
(* answer are inputs.                                                       *)
(***************************************************************************)
\* a variant of send_response without the return after a failed allocation
send_response_FallsThrough(self, req_data_null, ret_buf_null) ==
  LET tpreturn_fail == <<[rval |-> "TPFAIL", data |-> "req.data"]>>
      failed == IF ret_buf_null THEN tpreturn_fail ELSE <<>>
  IN [ok |-> TRUE,
      calls |-> IF self.success
                  THEN failed \o <<[rval |-> "TPSUCCESS", data |-> "ret_buf"]>>
                ELSE IF self.ubf_buffer
                  THEN IF ~ret_buf_null THEN <<[rval |-> "TPFAIL", data |-> "ret_buf"]>>
                       ELSE tpreturn_fail
                ELSE tpreturn_fail]

\* ServiceResult::send_response: self is the result (success, and whether it
\* carries a UBF buffer); ret_buf_null: the allocation of the reply failed
send_response(self, req_data_null, ret_buf_null) ==
  LET tpreturn_fail == <<[rval |-> "TPFAIL", data |-> "req.data"]>>
  IN [ok |-> TRUE,
      calls |-> IF self.success
                  THEN IF ret_buf_null THEN tpreturn_fail
                       ELSE <<[rval |-> "TPSUCCESS", data |-> "ret_buf"]>>
                ELSE IF self.ubf_buffer
                  THEN IF ~ret_buf_null THEN <<[rval |-> "TPFAIL", data |-> "ret_buf"]>>
                       ELSE tpreturn_fail
                ELSE tpreturn_fail]

\* service_dispatcher: from_raw_ok is the outcome of ServiceRequest::from_raw
\* (the service name is UTF-8), registry tells whether the registry is
\* initialised and knows the service, result is what the handler returns
service_dispatcher(from_raw_ok, registry, result, req_data_null, ret_buf_null) ==
  IF ~from_raw_ok THEN <<[rval |-> "TPFAIL", data |-> "req.data"]>>
  ELSE send_response(IF registry = "found" THEN result
                     ELSE [success |-> FALSE, ubf_buffer |-> FALSE],
                     req_data_null, ret_buf_null).calls

ServiceDispatcher(from_raw_ok, registry, result, req_data_null, ret_buf_null) ==
  /\ last' = Call("service_dispatcher", 0, 0,
                  [from_raw_ok |-> from_raw_ok, registry |-> registry, result |-> result,
                   req_data_null |-> req_data_null, ret_buf_null |-> ret_buf_null],
                  TRUE,
                  [calls |-> service_dispatcher(from_raw_ok, registry, result,
                                                req_data_null, ret_buf_null)])
  /\ pre' = buf
  /\ UNCHANGED <<buf, val>>

\* service_ubfecho: the request's buffer is Live's buffer, or there is none
ServiceUbfecho ==
  /\ last' = Call("service_ubfecho", 0, 0, [req_data_null |-> ~Live], TRUE,
                  [calls |-> IF ~Live THEN <<[rval |-> "TPFAIL", data |-> "req.data"]>>
                             ELSE <<[rval |-> "TPSUCCESS", data |-> "req.data"]>>])
  /\ buf' = NoBuf
  /\ pre' = buf
  /\ UNCHANGED val

\* service_ubftest: from_raw(req.data) or new(1024); the failures of the
\* accessors are logged and the reply is returned all the same
ServiceUbftest(new_ok) ==
  /\ last' = Call("service_ubftest", 0, 0, [req_data_null |-> ~Live, new_ok |-> new_ok], TRUE,
                  [calls |-> IF ~Live /\ ~new_ok
                               THEN <<[rval |-> "TPFAIL", data |-> "req.data"]>>
                             ELSE <<[rval |-> "TPSUCCESS", data |-> "ubf.into_raw()"]>>])
  /\ buf' = NoBuf
  /\ pre' = buf
  /\ UNCHANGED val

\* service_ubfadd: from_raw(req.data) or new(2048); the results of the adds
\* are dropped
ServiceUbfadd(new_ok) ==
  /\ last' = Call("service_ubfadd", 0, 0, [req_data_null |-> ~Live, new_ok |-> new_ok], TRUE,
                  [calls |-> IF ~Live /\ ~new_ok
                               THEN <<[rval |-> "TPFAIL", data |-> "req.data"]>>
                             ELSE <<[rval |-> "TPSUCCESS", data |-> "ubf.into_raw()"]>>])
  /\ buf' = NoBuf
  /\ pre' = buf
  /\ UNCHANGED val

\* service_ubfget: the fields are read and logged, the request's buffer is
\* returned
ServiceUbfget ==
  /\ last' = Call("service_ubfget", 0, 0, [req_data_null |-> ~Live], TRUE,
                  [calls |-> IF ~Live THEN <<[rval |-> "TPFAIL", data |-> "req.data"]>>
                             ELSE <<[rval |-> "TPSUCCESS", data |-> "ubf.into_raw()"]>>])
  /\ buf' = NoBuf
  /\ pre' = buf
  /\ UNCHANGED val

NextAtmi ==
  \/ \E ret \in {0, -1} : BeginTransaction(ret)
  \/ \E ret \in {0, -1}, still \in BOOLEAN : CommitTransaction(ret, still)
  \/ \E ret \in {0, -1}, still \in BOOLEAN : AbortTransaction(ret, still)
  \/ IsInTransaction
  \/ \E begin_ret \in {0, -1} : WithTransactionBegin(begin_ret)
  \/ \E end_ret \in {0, -1}, still \in BOOLEAN,
        f_ret \in {[ok |-> TRUE, v |-> "result"], [ok |-> FALSE, v |-> "e"]} :
       WithTransactionEnd(f_ret, end_ret, still)
  \/ \E service \in {S_a, S_nul}, data \in {S_b, S_nul}, send_null \in BOOLEAN, ret \in {0, -1},
        fresh \in BOOLEAN, recv_len \in {0, 2} :
       CallServiceBlocking(service, data, send_null, ret, fresh, recv_len)
  \/ \E service \in {S_a, S_nul}, send_null \in BOOLEAN, ret \in {0, -1}, fresh \in BOOLEAN :
       CallServiceUbfBlocking(service, send_null, ret, fresh)
  \/ \E service \in {S_a, S_nul}, ret \in {0, -1}, fresh \in BOOLEAN :
       CallServiceRaw(service, ret, fresh)
  \/ \E from_raw_ok \in BOOLEAN, registry \in {"none", "unknown", "found"},
        result \in [success : BOOLEAN, ubf_buffer : BOOLEAN],
        req_data_null \in BOOLEAN, ret_buf_null \in BOOLEAN :
       ServiceDispatcher(from_raw_ok, registry, result, req_data_null, ret_buf_null)
  \/ ServiceUbfecho
  \/ \E new_ok \in BOOLEAN : ServiceUbftest(new_ok)
  \/ \E new_ok \in BOOLEAN : ServiceUbfadd(new_ok)
  \/ ServiceUbfget
  \/ \E ptr_null \in BOOLEAN : New(2048, ptr_null)
  \/ \E mem \in NoOverRead : AddString(T_NAME_FLD, S_a, mem)

SpecAtmi == Init /\ [][NextAtmi]_vars

\* C21: with_transaction runs f only after tpbegin succeeded (f is running
\* only after a begin that did not fail, and a call whose begin failed ran no
\* f), then ends the transaction once: tpcommit exactly when f returned Ok, tpabort exactly
\* when f returned Err; it returns Ok(result) only when f and the commit
\* succeeded.
C21_WithTransaction ==
  /\ (last.op = "with_transaction: f") => last.arg # -1 /\ val.in_f /\ val.in_txn
  /\ (last.op = "with_transaction" /\ last.arg.begin_ret # -1) => ~val.in_f
  /\ (last.op = "with_transaction") =>
      LET calls == last.out.calls
          Count(c) == Cardinality({i \in 1..Len(calls) : calls[i] = c})
          ran == Count("f") = 1
      IN /\ calls[1] = "tpbegin" /\ Count("tpbegin") = 1
         /\ Count("f") <= 1
         /\ ran <=> last.arg.begin_ret # -1
         /\ ran => calls[2] = "f" /\ Len(calls) = 3
         /\ ~ran => Len(calls) = 1
         /\ Count("tpcommit") = (IF ran /\ last.arg.f_ret.ok THEN 1 ELSE 0)
         /\ Count("tpabort") = (IF ran /\ ~last.arg.f_ret.ok THEN 1 ELSE 0)
         /\ last.ok => /\ ran /\ last.arg.f_ret.ok /\ last.arg.end_ret # -1
                       /\ last.out.v = last.arg.f_ret.v

\* f failed inside a transaction that began, and the abort went through
C21_Witness ==
  /\ last.op = "with_transaction" /\ ~last.ok
  /\ last.out.calls = <<"tpbegin", "f", "tpabort">>
  /\ last.out.v = "e"


\* C22: from_ubf uses the declared default only when occurrence 0 of the
\* field is absent; when it is present, from_ubf returns the stored string or
\* fails with the read error.
C22_DefaultOnlyWhenAbsent ==
  (/\ last.op = "from_ubf" /\ last.ok
   /\ is_present(buf, T_STATUS_FLD, 0)) =>
    /\ get_string(buf, T_STATUS_FLD, 0).ok
    /\ last.out.v.status = buf.flds[FirstPos(buf, T_STATUS_FLD)].val


(***************************************************************************)
(* Narrow integers and nested structures.  Counter has one i32 field, its  *)
(* values 12345, -1 and i32::MIN as four little-endian bytes.  Parent has   *)
(* a field whose type is another mapped structure, with one string field   *)
(* declared on the identifier named street_fld.  Both are declarations the *)
(* macro expands into code that compiles; the Customer of the derive       *)
(* example, whose address is an Option<Address>, is not: no UbfStruct is    *)
(* implemented for Option.                                                 *)
(***************************************************************************)
Counter ==
  << [ident |-> "count", ty |-> "i32", attr |-> [field |-> UbfFields[2].name, default |-> None]] >>

Parent(street_fld) ==
  << [ident |-> "name", ty |-> "String", attr |-> [field |-> UbfFields[1].name, default |-> None]],
     [ident |-> "customer_id", ty |-> "i64", attr |-> [field |-> UbfFields[2].name, default |-> None]],
     [ident |-> "address", ty |-> "Address", attr |-> [field |-> <<48>>, default |-> None],
      nested |-> << [ident |-> "street", ty |-> "String",
                     attr |-> [field |-> street_fld, default |-> None]] >>] >>

NextNest ==
  \/ Derive(Counter, None)
  \/ \E street_fld \in {UbfFields[1].name, UbfFields[4].name} :
       Derive(Parent(street_fld), Some(street_fld))
  \/ \E s \in [count : {<<57, 48, 0, 0>>, <<255, 255, 255, 255>>, <<0, 0, 0, 128>>}]
                \cup [name : {S_a, S_b}, customer_id : {I64(12345)},
                      address : [street : {S_a, S_b}]],
        mem \in NoOverRead, ptr_null \in BOOLEAN :
       ToUbf(s, mem, ptr_null)
  \/ \E s \in [count : {<<57, 48, 0, 0>>, <<255, 255, 255, 255>>, <<0, 0, 0, 128>>}]
                \cup [name : {S_a, S_b}, customer_id : {I64(12345)},
                      address : [street : {S_a, S_b}]],
        mem \in NoOverRead : UpdateUbf(s, mem)
  \/ FromUbf
  \/ \E ptr_null \in BOOLEAN : New(2048, ptr_null)
  \/ \E id \in {T_NAME_FLD, T_STATUS_FLD}, mem \in NoOverRead : AddString(id, S_a, mem)
  \/ \E v \in {I64(12345), I64MinusOne, <<5, 0, 0, 0, 1, 0, 0, 0>>, <<0, 0, 0, 128, 0, 0, 0, 0>>},
        mem \in NoOverRead : AddLong(T_ID_FLD, v, mem)

SpecNest == Init /\ [][NextNest]_vars

\* C23: an i32 field is read with get_long(id, 0) and narrowed by
\* truncation: whatever long is stored at occurrence 0, from_ubf succeeds
\* and yields its four low bytes, also when the long is outside the i32
\* range; and an i32 written by update_ubf as the only occurrence is read
\* back unchanged
C23_NarrowByTruncation ==
  (last.op = "from_ubf" /\ val.fields[1].field_type = "i32"
     /\ is_present(buf, T_ID_FLD, 0)) =>
    /\ last.ok
    /\ last.out.v.count = SubSeq(buf.flds[FirstPos(buf, T_ID_FLD)].val, 1, 4)
    /\ (val.has_s /\ Boccur(buf, T_ID_FLD) = 1) => last.out.v.count = val.s.count

\* from_ubf has read 2^32 + 5 through an i32 field as 5
C23_Witness ==
  /\ last.op = "from_ubf" /\ last.ok /\ val.fields[1].field_type = "i32"
  /\ buf.flds[FirstPos(buf, T_ID_FLD)].val = <<5, 0, 0, 0, 1, 0, 0, 0>>
  /\ last.out.v.count = <<5, 0, 0, 0>>

\* from_ubf has read back -1 written by update_ubf
C23_RoundTripWitness ==
  /\ last.op = "from_ubf" /\ last.ok /\ val.fields[1].field_type = "i32"
  /\ val.has_s /\ Boccur(buf, T_ID_FLD) = 1
  /\ last.out.v.count = <<255, 255, 255, 255>>

\* C24: a nested structure is written to and read from its parent's buffer.
\* When street is declared on the identifier of name, a to_ubf that succeeds
\* leaves name as occurrence 0 and street as occurrence 1 of that
\* identifier, and from_ubf returns occurrence 0 for both fields, so a
\* street that differs from the name is not read back
C24_NestedSharesBuffer ==
  (val.derived /\ val.lit = Some(UbfFields[1].name)) =>
    /\ (last.op = "to_ubf" /\ last.ok) =>
         /\ Boccur(buf, T_NAME_FLD) = 2
         /\ get_string(buf, T_NAME_FLD, 0).v = val.s.name
         /\ get_string(buf, T_NAME_FLD, 1).v = val.s.address.street
    /\ (last.op = "from_ubf" /\ last.ok) =>
         /\ last.out.v.name = get_string(buf, T_NAME_FLD, 0).v
         /\ last.out.v.address.street = get_string(buf, T_NAME_FLD, 0).v
    /\ (last.op = "from_ubf" /\ last.ok /\ val.has_s /\ Boccur(buf, T_NAME_FLD) = 2
          /\ val.s.name # val.s.address.street) =>
         last.out.v.address.street # val.s.address.street

\* from_ubf after to_ubf has returned the name as the street
C24_Witness ==
  /\ val.derived /\ val.lit = Some(UbfFields[1].name)
  /\ last.op = "from_ubf" /\ last.ok /\ val.has_s /\ Boccur(buf, T_NAME_FLD) = 2
  /\ val.s.name = S_a /\ val.s.address.street = S_b
  /\ last.out.v.address.street = S_a


\* C25: a change_string(id, k, v) that succeeds on an existing occurrence k
\* overwrites exactly that occurrence: get_string(id, k) then returns v, the
\* number of occurrences of id is unchanged, and every other entry keeps its
\* value and its position
C25_ChangeOverwritesOne ==
  (last.op = "change_string" /\ last.ok /\ last.occ < Boccur(pre, last.id)) =>
    /\ get_string(buf, last.id, last.occ).ok
    /\ get_string(buf, last.id, last.occ).v = last.arg
    /\ Boccur(buf, last.id) = Boccur(pre, last.id)
    /\ Len(buf.flds) = Len(pre.flds)
    /\ \A i \in 1..Len(pre.flds) :
         i # FirstPos(pre, last.id) + last.occ => buf.flds[i] = pre.flds[i]


\* C29: an add, a change_string or a delete applied to an identifier leaves
\* the entries of every other identifier as they were, in number and in
\* value, whether the call succeeds or fails; and the reading calls (get_*,
\* is_present, used, unused, size) leave the whole buffer as it was
C29_LocalToIdentifier ==
  /\ (last.op \in Adders \cup {"change_string", "delete"} /\ pre.st = "live") =>
       /\ Others(buf, last.id) = Others(pre, last.id)
       /\ \A id \in Ids \ {last.id} :
            /\ Boccur(buf, id) = Boccur(pre, id)
            /\ \A k \in 0..(Boccur(pre, id) - 1) : FldVal(buf, id, k) = FldVal(pre, id, k)
  /\ last.op \in {"get_string", "get_long", "get_double", "is_present", "sizes"} => buf = pre

\* C29 witness: an occurrence was deleted from a buffer that holds entries of
\* two other identifiers
C29_Witness ==
  /\ last.op = "delete" /\ last.ok /\ last.id = T_ID_FLD
  /\ Boccur(pre, T_NAME_FLD) = 1 /\ Boccur(pre, T_PRICE_FLD) = 1
  /\ Boccur(buf, T_NAME_FLD) = 1 /\ Boccur(buf, T_PRICE_FLD) = 1
  /\ Boccur(buf, T_ID_FLD) = 0


\* C26: the capacity size() reports never exceeds the bytes allocated for
\* the buffer, and no add has written past the allocation, for a buffer from
\* new as for one rebuilt from bytes
C26_SizeWithinAllocation ==
  Live => size(buf) <= buf.alloc /\ ~buf.ovf


\* C28: no next() of an iterator reads released memory: at every next() the
\* memory the iterator points to has not been released, whatever was done
\* with the buffer it was made of
C28_NextReadsLiveMemory ==
  last.op = "next" => last.arg = 0


\* C27: the client calls leak no transport buffer and release none twice:
\* when call_service_blocking or call_service_ubf_blocking returns, every
\* buffer it obtained from tpalloc or tpcall has been released exactly once;
\* when call_service_raw returns, the caller's buffer is the reply returned
\* or has been released once, and a reply in another buffer is returned or
\* released once
C27_TransportBuffersReleased ==
  /\ last.op \in {"call_service_blocking", "call_service_ubf_blocking"} =>
       \A p \in 1..Len(val.heap) : val.heap[p].freed = 1
  /\ last.op = "call_service_raw" =>
       \A p \in 1..Len(val.heap) :
         val.heap[p].freed = IF last.ok /\ last.out = p THEN 0 ELSE 1


\* C30: every service invocation ends with exactly one tpreturn, with
\* TPSUCCESS or TPFAIL: through service_dispatcher and send_response on
\* every outcome of the request parse, the registry lookup, the handler and
\* the allocation of the reply, and through the four ubfsvr handlers
C30_OneTpreturn ==
  last.op \in {"service_dispatcher", "service_ubfecho", "service_ubftest",
               "service_ubfadd", "service_ubfget"} =>
    /\ Len(last.out.calls) = 1
    /\ last.out.calls[1].rval \in {"TPSUCCESS", "TPFAIL"}
    /\ (last.op = "service_dispatcher" /\ last.arg.registry # "found") =>
         last.out.calls[1].rval = "TPFAIL"

\* C30 witness: a handler succeeded with a UBF buffer, the reply could not be
\* allocated and the invocation ended with the one tpreturn of tpreturn_fail
C30_Witness ==
  /\ last.op = "service_dispatcher"
  /\ last.arg.from_raw_ok /\ last.arg.registry = "found"
  /\ last.arg.result = [success |-> TRUE, ubf_buffer |-> TRUE] /\ last.arg.ret_buf_null
  /\ last.out.calls = <<[rval |-> "TPFAIL", data |-> "req.data"]>>

====
